---- MODULE Spec2Model ----
(***************************************************************************)
(* scaraplate: the strategy-driven file reconciliation engine.             *)
(*                                                                         *)
(* File contents are byte strings, modelled as sequences of code points    *)
(* (the inputs are ASCII, for which bytes.decode()/str.encode() keep every *)
(* code point).  An absent target file (Python None) is the value None.    *)
(* An Optional[int] is a sequence of length <= 1.                          *)
(***************************************************************************)
EXTENDS Integers, Sequences, FiniteSets, TLC

VARIABLES
    strategy,           \* name of the Strategy class of the file's StrategyNode
    config,             \* the validated config of the StrategyNode (Strategy.config)
    template_contents,  \* bytes of the file in the rendered template
    template_mode,      \* st_mode of the file in the rendered template
    template_meta,      \* TemplateMeta of the template repository
    target_contents,    \* bytes of the file in the target project, None if it does not exist
    target_mode,        \* permission bits of the target file (0 while it does not exist)
    last,               \* the last strategy invocation: its inputs and what apply() gave
    previous,           \* the strategy invocation before the last one
    rollups,            \* number of rollups that have reached the file
    edits,              \* number of manual edits of the target file
    strategies_mapping, \* ScaraplateYamlStrategies.strategies_mapping, in insertion order
    path,               \* the relative path last handed to get_strategy
    node,               \* the StrategyNode get_strategy returned for path
    scaraplate_yaml,    \* scaraplate.yaml of the template: the raw strategy nodes
    generated,          \* the tree of the project cookiecutter rendered
    project,            \* the tree of the target project
    pc,                 \* where rollup() is: "idle", "ready", "applying", "done", "raised"
    raised,             \* the exception rollup() raised ("no": none)
    todo,               \* the files apply_generated_project has yet to walk, in order
    scaraplate_yaml_strategies, \* the ScaraplateYamlStrategies of the running rollup
    before,             \* the tree of the target project when rollup() was called
    step,               \* what became of the file apply_generated_project reached last
    written,            \* the paths written since rollup() was called
    runs,               \* number of calls of rollup()
    original,           \* the tree of the target project before its first rollup
    repaired,           \* the target files repaired by hand after a failed rollup
    head,               \* the tree of the default branch of the project repository
    branch,             \* the tree commit_changes committed last
    commit_calls,       \* calls of commit_changes in the running automatic_rollup
    auto_pc,            \* where automatic_rollup is: "idle", "rolling", "finished"
    buffers,            \* file_contents_args of detect_newline: the open files, None as <<>>
    default_newline,    \* the argument default of detect_newline
    inspected,          \* number of files the loop of detect_newline is through with
    first_line,         \* line_with_newline: what readline() returned for the file at hand
    detected,           \* what detect_newline returned (<<>>: nothing yet)
    newline_pc,         \* where detect_newline is: "idle", "loop", "read", "rewound", "done", "raised"
    commits,            \* the commits of the project repository: parent (0: none) and tree
    remote_branches,    \* the branches of the remote: the commit of each (0: no such branch)
    merge_requests,     \* the merge requests of the GitLab project, in order of creation
    clone_ref,          \* clone_ref of the ProjectVCS (<<>>: None, the default branch)
    changes_branch,     \* changes_branch of the ProjectVCS
    origin,             \* the remote refs of the clone: the remote branches when it was made
    cloned_head,        \* the commit the clone has checked out
    worktree,           \* the tree in the working directory of the clone
    local_commit,       \* the commit commit_changes made on its local branch (<<>>: none)
    git_commands,       \* the git commands commit_changes ran against the remote
    git_pc,             \* "idle", "cloned", "rolled", "pushed", "finished", "raised"
    template_repo,      \* the template repository: the commit of each branch and tag
    template_clone_ref, \* clone_ref of the TemplateVCS (<<>>: None)
    template_vcs        \* what GitCloneTemplateVCS.clone gave: error, head_ref, commit_hash

file_vars == <<strategy, config, template_contents, template_mode, template_meta,
               target_contents, target_mode, last, previous, rollups, edits>>

dispatch_vars == <<strategies_mapping, path, node>>

project_vars == <<scaraplate_yaml, generated, project, pc, raised, todo,
                  scaraplate_yaml_strategies, before, step, written, runs, original, repaired>>

vcs_vars == <<head, branch, commit_calls, auto_pc>>

newline_vars == <<buffers, default_newline, inspected, first_line, detected, newline_pc>>

git_vars == <<commits, remote_branches, merge_requests, clone_ref, changes_branch, origin,
              cloned_head, worktree, local_commit, git_commands, git_pc, template_repo,
              template_clone_ref, template_vcs>>

vars == <<file_vars, dispatch_vars, project_vars, vcs_vars, newline_vars, git_vars>>

\* no repository is cloned with git
NoGit ==
    /\ commits = <<>>
    /\ remote_branches = <<>>
    /\ merge_requests = <<>>
    /\ clone_ref = <<>>
    /\ changes_branch = ""
    /\ origin = <<>>
    /\ cloned_head = 0
    /\ worktree = <<>>
    /\ local_commit = <<>>
    /\ git_commands = <<>>
    /\ git_pc = "idle"
    /\ template_repo = <<>>
    /\ template_clone_ref = <<>>
    /\ template_vcs = [error |-> "none"]

(***************************************************************************)
(* Code points                                                             *)
(***************************************************************************)
LF == 10
CR == 13
TAB == 9
SP == 32

\* The target file does not exist (target_contents is None).
None == << -1 >>

\* What bytes.splitlines() splits at.
BytesLineBreaks == {LF, CR}

\* What str.splitlines() splits at (within Latin-1).
StrLineBreaks == {LF, CR, 11, 12, 28, 29, 30, 133}

\* What str.strip() / str.rstrip() remove (within ASCII).
Whitespace == {TAB, LF, 11, 12, CR, 28, 29, 30, 31, SP}

(***************************************************************************)
(* String primitives of the Python runtime                                 *)
(***************************************************************************)
MaxOf(S) == CHOOSE x \in S : \A y \in S : y <= x

MinOf(S) == CHOOSE x \in S : \A y \in S : x <= y

\* s occurs in t starting at index i
OccursAt(s, t, i) ==
    /\ i >= 1
    /\ i + Len(s) - 1 <= Len(t)
    /\ \A j \in 1..Len(s) : t[i + j - 1] = s[j]

\* Python: s in t
Contains(s, t) == \E i \in 1..(Len(t) - Len(s) + 1) : OccursAt(s, t, i)

\* Python: t.startswith(s)
StartsWith(t, s) == OccursAt(s, t, 1)

\* the first index >= start of s whose code point is in chars, or 0
first_in(s, start, chars) ==
    IF \E i \in start..Len(s) : s[i] \in chars
    THEN CHOOSE i \in start..Len(s) :
             s[i] \in chars /\ \A j \in start..(i - 1) : s[j] \notin chars
    ELSE 0

\* the first index >= start of s whose code point is not in chars, or 0
first_not_in(s, start, chars) ==
    IF \E i \in start..Len(s) : s[i] \notin chars
    THEN CHOOSE i \in start..Len(s) :
             s[i] \notin chars /\ \A j \in start..(i - 1) : s[j] \in chars
    ELSE 0

\* the last index of s whose code point is in chars, or 0
last_in(s, chars) ==
    IF \E i \in 1..Len(s) : s[i] \in chars
    THEN CHOOSE i \in 1..Len(s) :
             s[i] \in chars /\ \A j \in (i + 1)..Len(s) : s[j] \notin chars
    ELSE 0

\* the last index of s whose code point is not in chars, or 0
last_not_in(s, chars) ==
    IF \E i \in 1..Len(s) : s[i] \notin chars
    THEN CHOOSE i \in 1..Len(s) :
             s[i] \notin chars /\ \A j \in (i + 1)..Len(s) : s[j] \in chars
    ELSE 0

\* Python: s.rstrip(chars)
rstrip(s, chars) == SubSeq(s, 1, last_not_in(s, chars))

\* Python: s.lstrip(chars)
lstrip(s, chars) ==
    IF first_not_in(s, 1, chars) = 0 THEN <<>>
    ELSE SubSeq(s, first_not_in(s, 1, chars), Len(s))

\* Python: s.strip()
strip(s) == lstrip(rstrip(s, Whitespace), Whitespace)

\* Python: str.casefold() / str.lower() of an ASCII code point
casefold_char(c) == IF c >= 65 /\ c <= 90 THEN c + 32 ELSE c

casefold(s) == [i \in 1..Len(s) |-> casefold_char(s[i])]

\* Python: a < b on str / bytes (lexicographic by code point)
SeqLess(a, b) ==
    \E i \in 1..(Len(b)) :
        /\ \A j \in 1..(i - 1) : j <= Len(a) /\ a[j] = b[j]
        /\ i - 1 <= Len(a)
        /\ (i > Len(a) \/ a[i] < b[i])

SeqLeq(a, b) == a = b \/ SeqLess(a, b)

\* Python: splitlines() with the given set of line boundaries; "\r\n" is one boundary
RECURSIVE SplitLinesFrom(_, _, _, _)
SplitLinesFrom(s, brk, start, acc) ==
    LET i == first_in(s, start, brk)
    IN  IF start > Len(s) THEN acc
        ELSE IF i = 0 THEN Append(acc, SubSeq(s, start, Len(s)))
        ELSE SplitLinesFrom(s, brk,
                            IF s[i] = CR /\ i < Len(s) /\ s[i + 1] = LF THEN i + 2 ELSE i + 1,
                            Append(acc, SubSeq(s, start, i - 1)))

\* bytes.splitlines()
bytes_splitlines(b) == SplitLinesFrom(b, BytesLineBreaks, 1, <<>>)

\* str.splitlines()
str_splitlines(s) == SplitLinesFrom(s, StrLineBreaks, 1, <<>>)

\* Python: sep.join(parts)
RECURSIVE Join(_, _)
Join(parts, sep) ==
    IF parts = <<>> THEN <<>>
    ELSE IF Len(parts) = 1 THEN parts[1]
    ELSE parts[1] \o sep \o Join(Tail(parts), sep)

\* Python: b"".join(line + newline for line in lines)
RECURSIVE JoinEach(_, _)
JoinEach(parts, sep) ==
    IF parts = <<>> THEN <<>>
    ELSE parts[1] \o sep \o JoinEach(Tail(parts), sep)

\* BinaryIO.readline(): up to and including the first "\n"
up_to(s, i) == IF i = 0 THEN s ELSE SubSeq(s, 1, i)

readline(s) == up_to(s, first_in(s, 1, {LF}))

\* The set of the elements of a sequence
Range(s) == {s[i] : i \in 1..Len(s)}

(***************************************************************************)
(* detect_newline                                                          *)
(***************************************************************************)
\* line_with_newline[len(line_without_newline):]
line_newline(line_with_newline) ==
    SubSeq(line_with_newline, Len(rstrip(line_with_newline, {CR, LF})) + 1,
           Len(line_with_newline))

RECURSIVE detect_newline(_, _)
\* the newline of the first line of a file if it has one, else that of the other files
newline_or_next(newline, file_contents_args, default) ==
    IF newline # <<>> THEN newline ELSE detect_newline(file_contents_args, default)

\* a faulty detect_newline: the last file (the template) is asked before the target
RECURSIVE detect_newline_template_first(_, _)
detect_newline_template_first(file_contents_args, default) ==
    IF file_contents_args = <<>> THEN default
    ELSE IF file_contents_args[Len(file_contents_args)] # None
            /\ line_newline(readline(file_contents_args[Len(file_contents_args)])) # <<>>
    THEN line_newline(readline(file_contents_args[Len(file_contents_args)]))
    ELSE detect_newline_template_first(
             SubSeq(file_contents_args, 1, Len(file_contents_args) - 1), default)

detect_newline(file_contents_args, default) ==
    IF file_contents_args = <<>> THEN default
    ELSE IF Head(file_contents_args) = None
    THEN detect_newline(Tail(file_contents_args), default)
    ELSE newline_or_next(line_newline(readline(Head(file_contents_args))),
                         Tail(file_contents_args), default)

\* io.BytesIO(contents), not read yet; None stays None (<<>>)
BytesIO(contents) ==
    IF contents = None THEN <<>> ELSE <<[contents |-> contents, offset |-> 0]>>

\* file_contents.tell()
tell(file_contents) == file_contents.offset

\* what file_contents.readline() returns: from the read offset up to and including
\* the next "\n"
BinaryIO_readline(file_contents) ==
    readline(SubSeq(file_contents.contents, file_contents.offset + 1,
                    Len(file_contents.contents)))

\* the file after file_contents.readline()
after_readline(file_contents) ==
    [file_contents EXCEPT !.offset = @ + Len(BinaryIO_readline(file_contents))]

\* a faulty seek: the read offset stays where it is
seek_ignored(file_contents, offset) == file_contents

\* the file after file_contents.seek(offset)
seek(file_contents, offset) == [file_contents EXCEPT !.offset = offset]

\* detect_newline is not running
NoNewline ==
    /\ buffers = <<>>
    /\ default_newline = <<LF>>
    /\ inspected = 0
    /\ first_line = <<>>
    /\ detected = <<>>
    /\ newline_pc = "idle"

\* for file_contents in file_contents_args: the next file is None, or it is read:
\* assert file_contents.tell() == 0; line_with_newline = file_contents.readline()
ReadFirstLine ==
    /\ newline_pc = "loop"
    /\ inspected < Len(buffers)
    /\ IF buffers[inspected + 1] = <<>>
       THEN /\ inspected' = inspected + 1
            /\ UNCHANGED <<buffers, first_line, newline_pc>>
       ELSE IF tell(buffers[inspected + 1][1]) # 0
       THEN /\ newline_pc' = "raised"
            /\ UNCHANGED <<buffers, first_line, inspected>>
       ELSE /\ first_line' = BinaryIO_readline(buffers[inspected + 1][1])
            /\ buffers' = [buffers EXCEPT
                               ![inspected + 1] = <<after_readline(buffers[inspected + 1][1])>>]
            /\ newline_pc' = "read"
            /\ UNCHANGED inspected
    /\ UNCHANGED <<default_newline, detected, file_vars, dispatch_vars, project_vars, vcs_vars,
                   git_vars>>

\* file_contents.seek(0)
SeekStart ==
    /\ newline_pc = "read"
    /\ buffers' = [buffers EXCEPT ![inspected + 1] = <<seek(buffers[inspected + 1][1], 0)>>]
    /\ newline_pc' = "rewound"
    /\ UNCHANGED <<default_newline, inspected, first_line, detected, file_vars, dispatch_vars,
                   project_vars, vcs_vars,
                   git_vars>>

\* if len(line_with_newline) != len(line_without_newline): return the rest of the
\* line; else the loop goes on
CompareLine ==
    /\ newline_pc = "rewound"
    /\ IF line_newline(first_line) # <<>>
       THEN /\ detected' = line_newline(first_line)
            /\ newline_pc' = "done"
            /\ UNCHANGED inspected
       ELSE /\ inspected' = inspected + 1
            /\ newline_pc' = "loop"
            /\ UNCHANGED detected
    /\ UNCHANGED <<buffers, default_newline, first_line, file_vars, dispatch_vars, project_vars,
                   vcs_vars,
                   git_vars>>

\* return default
ReturnDefault ==
    /\ newline_pc = "loop"
    /\ inspected = Len(buffers)
    /\ detected' = default_newline
    /\ newline_pc' = "done"
    /\ UNCHANGED <<buffers, default_newline, inspected, first_line, file_vars, dispatch_vars,
                   project_vars, vcs_vars,
                   git_vars>>

(***************************************************************************)
(* Overwrite, IfMissing                                                    *)
(***************************************************************************)
\* a faulty Overwrite.apply: an existing target is kept
Overwrite_apply_keeping(target, template) ==
    IF target = None THEN template ELSE target

Overwrite_apply(target, template) == template

\* a faulty IfMissing.apply: `if not target_contents`, an empty file counts as missing
IfMissing_apply_falsy(target, template) ==
    IF target = None \/ target = <<>> THEN template ELSE target

IfMissing_apply(target, template) ==
    IF target = None THEN template ELSE target

(***************************************************************************)
(* Compiled patterns (scaraplate.fields.Pattern).  A pattern of the form   *)
(* "^ *(lit1|lit2|...)" with an optional "$" is the record                 *)
(* [spaces, alts, eol]; Pattern.match(s) anchors at the start of s only.   *)
(***************************************************************************)
pattern_match(pattern, s) ==
    LET rest == IF pattern.spaces THEN lstrip(s, {SP}) ELSE s
    IN  \E lit \in pattern.alts :
            /\ StartsWith(rest, lit)
            /\ pattern.eol => (rest = lit \/ rest = Append(lit, LF))

\* re.compile(r"^ *([;#%]|//)"), the default of SortedUniqueLines.Schema.comment_pattern
DefaultCommentPattern ==
    [spaces |-> TRUE, alts |-> {<<59>>, <<35>>, <<37>>, <<47, 47>>}, eol |-> FALSE]

(***************************************************************************)
(* SortedUniqueLines                                                       *)
(***************************************************************************)
\* the index of the first line that is neither a comment nor blank (Len + 1 if none)
header_end(cfg, lines) ==
    LET body == {i \in 1..Len(lines) :
                    ~(pattern_match(cfg.comment_pattern, lines[i])
                      \/ strip(lines[i]) = <<>>)}
    IN  IF body = {} THEN Len(lines) + 1 ELSE MinOf(body)

\* split_header: <<header_lines, to_sort_lines>>
split_header(cfg, lines) ==
    LET k == header_end(cfg, lines)
    IN  <<SubSeq(lines, 1, k - 1), SubSeq(lines, k, Len(lines))>>

\* the sort key of SortedUniqueLines.apply: (s.casefold(), s)
sort_key_less(a, b) ==
    \/ SeqLess(casefold(a), casefold(b))
    \/ casefold(a) = casefold(b) /\ SeqLess(a, b)

\* sorted(set(out_lines), key=lambda s: (s.casefold(), s))
RECURSIVE sorted_lines_of(_)
sorted_lines_of(S) ==
    IF S = {} THEN <<>>
    ELSE LET m == CHOOSE x \in S : \A y \in S \ {x} : sort_key_less(x, y)
         IN  <<m>> \o sorted_lines_of(S \ {m})

\* faulty out_lines: the header of the target is not split off
out_lines_with_target_header(cfg, target, template) ==
    split_header(cfg, str_splitlines(template))[2]
    \o (IF target = None THEN <<>> ELSE str_splitlines(target))

\* the lines to sort: those of the template, then those of the target if there is one
out_lines_of(cfg, target, template) ==
    split_header(cfg, str_splitlines(template))[2]
    \o (IF target = None THEN <<>> ELSE split_header(cfg, str_splitlines(target))[2])

\* header_lines + sorted_lines, joined
join_sorted(header_lines, out_lines, newline) ==
    Join(header_lines \o Append(sorted_lines_of(Range(out_lines) \ {<<>>}), <<>>), newline)

SortedUniqueLines_apply(cfg, target, template) ==
    join_sorted(split_header(cfg, str_splitlines(template))[1],
                out_lines_of(cfg, target, template),
                detect_newline(<<target, template>>, <<LF>>))

(***************************************************************************)
(* TemplateMeta and the git remote                                         *)
(***************************************************************************)
\* "/commit/"
CommitPath == <<47, 99, 111, 109, 109, 105, 116, 47>>

\* GitHub.commit_url
commit_url_of(project_url, commit_hash) ==
    rstrip(project_url, {47}) \o CommitPath \o commit_hash

\* the remote of the template repository: "https://github.com/o/t"
GitProjectUrl == 
    <<104, 116, 116, 112, 115, 58, 47, 47, 103, 105, 116, 104, 117, 98, 46, 99,
    111, 109, 47, 111, 47, 116>>

\* a full-length hex commit hash made of one hex digit
CommitHash(digit) == [i \in 1..40 |-> digit]

\* get_template_meta_from_git
TemplateMeta(commit_hash, is_git_dirty) ==
    [git_project_url |-> GitProjectUrl,
     commit_hash |-> commit_hash,
     commit_url |-> commit_url_of(GitProjectUrl, commit_hash),
     is_git_dirty |-> is_git_dirty]

(***************************************************************************)
(* TemplateHash                                                            *)
(***************************************************************************)
\* "Generated by https://github.com/rambler-digital-solutions/scaraplate"
GeneratedBy == 
    <<71, 101, 110, 101, 114, 97, 116, 101, 100, 32, 98, 121, 32, 104, 116, 116,
    112, 115, 58, 47, 47, 103, 105, 116, 104, 117, 98, 46, 99, 111, 109, 47, 114,
    97, 109, 98, 108, 101, 114, 45, 100, 105, 103, 105, 116, 97, 108, 45, 115,
    111, 108, 117, 116, 105, 111, 110, 115, 47, 115, 99, 97, 114, 97, 112, 108,
    97, 116, 101>>

\* "From "
FromPrefix == <<70, 114, 111, 109, 32>>

\* "From (dirty) "
FromDirtyPrefix == <<70, 114, 111, 109, 32, 40, 100, 105, 114, 116, 121, 41, 32>>

\* f"{line_comment_start} {line}"
comment_line(cfg, line) == cfg.line_comment_start \o <<SP>> \o line

from_line(meta) ==
    IF meta.is_git_dirty THEN FromDirtyPrefix \o meta.commit_url
    ELSE FromPrefix \o meta.commit_url

TemplateHash_comment_contents(cfg, meta) ==
    <<comment_line(cfg, GeneratedBy), comment_line(cfg, from_line(meta))>>

\* a faulty searched comment: the commit line is left out
TemplateHash_searched_without_commit(cfg, meta) ==
    <<comment_line(cfg, GeneratedBy)>>

TemplateHash_searched_comment_contents(cfg, meta) ==
    TemplateHash_comment_contents(cfg, meta)

\* max_line_length is <<>> (None) or <<n>>
_maybe_add_linter_ignore(cfg, line) ==
    LET line_length == cfg.max_line_length
        ignore_mark == cfg.max_line_linter_ignore_mark
    IN  IF line_length # <<>> /\ line_length[1] # 0 /\ Len(line) >= line_length[1]
        THEN line \o ignore_mark
        ELSE line

render_comment(cfg, comment_lines, newline) ==
    JoinEach([i \in 1..Len(comment_lines) |->
                 _maybe_add_linter_ignore(cfg, comment_lines[i])], newline)

\* a faulty TemplateHash.apply: the target is never kept
always_rewrite(meta, target, template, searched_comment, appended_comment, newline) ==
    JoinEach(bytes_splitlines(template), newline) \o newline \o appended_comment

\* a faulty TemplateHash.apply: a dirty template does not force the rewrite
keep_when_dirty(meta, target, template, searched_comment, appended_comment, newline) ==
    IF target # None /\ Contains(searched_comment, target)
    THEN target
    ELSE JoinEach(bytes_splitlines(template), newline) \o newline \o appended_comment

\* TemplateHash.apply once the comments are rendered with the detected newline
keep_or_rewrite(meta, target, template, searched_comment, appended_comment, newline) ==
    IF target # None /\ Contains(searched_comment, target) /\ ~meta.is_git_dirty
    THEN target
    ELSE JoinEach(bytes_splitlines(template), newline) \o newline \o appended_comment

rendered_apply(cfg, meta, target, template, searched_contents, appended_contents, newline) ==
    keep_or_rewrite(meta, target, template,
                    render_comment(cfg, searched_contents, newline),
                    render_comment(cfg, appended_contents, newline), newline)

\* TemplateHash.apply, given the two comment blocks of the class
hash_apply(cfg, meta, target, template, searched_contents, appended_contents) ==
    rendered_apply(cfg, meta, target, template, searched_contents, appended_contents,
                   detect_newline(<<target, template>>, <<LF>>))

TemplateHash_apply(cfg, meta, target, template) ==
    hash_apply(cfg, meta, target, template,
               TemplateHash_searched_comment_contents(cfg, meta),
               TemplateHash_comment_contents(cfg, meta))

(***************************************************************************)
(* RenderedTemplateFileHash                                                *)
(***************************************************************************)
\* "RenderedTemplateFileHash "
RenderedHashPrefix == 
    <<82, 101, 110, 100, 101, 114, 101, 100, 84, 101, 109, 112, 108, 97, 116, 101,
    70, 105, 108, 101, 72, 97, 115, 104, 32>>

HexDigit(n) == IF n < 10 THEN 48 + n ELSE 87 + n

\* hashlib.md5(data).hexdigest(): 32 hex digits that depend on every byte of
\* the data and on its order.  The digest is a stand-in for MD5: a 16 bit
\* polynomial checksum, written eight times.
RECURSIVE checksum(_, _, _)
checksum(data, i, h) ==
    IF i > Len(data) THEN h
    ELSE checksum(data, i + 1, (h * 31 + data[i] + 1) % 65536)

md5_hexdigest(data) ==
    LET h == checksum(data, 1, 7)
        quad == <<HexDigit(h \div 4096), HexDigit((h \div 256) % 16),
                  HexDigit((h \div 16) % 16), HexDigit(h % 16)>>
    IN  quad \o quad \o quad \o quad \o quad \o quad \o quad \o quad

RenderedTemplateFileHash_searched_comment_contents(cfg, template) ==
    <<comment_line(cfg, GeneratedBy),
      comment_line(cfg, RenderedHashPrefix \o md5_hexdigest(template))>>

RenderedTemplateFileHash_comment_contents(cfg, meta, template) ==
    RenderedTemplateFileHash_searched_comment_contents(cfg, template)
        \o <<comment_line(cfg, from_line(meta))>>

RenderedTemplateFileHash_apply(cfg, meta, target, template) ==
    hash_apply(cfg, meta, target, template,
               RenderedTemplateFileHash_searched_comment_contents(cfg, template),
               RenderedTemplateFileHash_comment_contents(cfg, meta, template))

(***************************************************************************)
(* fnmatch.fnmatch (POSIX: os.path.normcase keeps the case)                *)
(***************************************************************************)
\* the index of the "]" closing the class opened just before index i, or 0
class_end(pat, i) ==
    LET j0 == IF i <= Len(pat) /\ pat[i] = 33 THEN i + 1 ELSE i
        j1 == IF j0 <= Len(pat) /\ pat[j0] = 93 THEN j0 + 1 ELSE j0
    IN  first_in(pat, j1, {93})

\* the code points a class body (without a leading "!") stands for
RECURSIVE class_members(_, _)
class_members(stuff, p) ==
    IF p > Len(stuff) THEN {}
    ELSE IF p + 2 <= Len(stuff) /\ stuff[p + 1] = 45
    THEN (stuff[p]..stuff[p + 2]) \cup class_members(stuff, p + 3)
    ELSE {stuff[p]} \cup class_members(stuff, p + 1)

\* fnmatch.translate: the pattern as a sequence of tokens
RECURSIVE translate(_, _, _)
translate(pat, i, res) ==
    IF i > Len(pat) THEN res
    ELSE LET c == pat[i] IN
         IF c = 42
         THEN IF res # <<>> /\ res[Len(res)].kind = "star"
              THEN translate(pat, i + 1, res)
              ELSE translate(pat, i + 1, Append(res, [kind |-> "star"]))
         ELSE IF c = 63
         THEN translate(pat, i + 1, Append(res, [kind |-> "any"]))
         ELSE IF c = 91
         THEN LET j == class_end(pat, i + 1) IN
              IF j = 0
              THEN translate(pat, i + 1, Append(res, [kind |-> "lit", c |-> 91]))
              ELSE LET stuff == SubSeq(pat, i + 1, j - 1)
                       negated == stuff # <<>> /\ stuff[1] = 33
                       body == IF negated THEN Tail(stuff) ELSE stuff
                   IN  translate(pat, j + 1,
                                 Append(res, [kind |-> "class", negated |-> negated,
                                              members |-> class_members(body, 1)]))
         ELSE translate(pat, i + 1, Append(res, [kind |-> "lit", c |-> c]))

\* re.match of the translated pattern against the whole name
RECURSIVE glob_match(_, _, _, _)
glob_match(toks, i, name, j) ==
    IF i > Len(toks) THEN j > Len(name)
    ELSE LET t == toks[i] IN
         IF t.kind = "star"
         THEN \E k \in j..(Len(name) + 1) : glob_match(toks, i + 1, name, k)
         ELSE /\ j <= Len(name)
              /\ CASE t.kind = "any" -> TRUE
                   [] t.kind = "lit" -> name[j] = t.c
                   [] t.kind = "class" -> (name[j] \in t.members) # t.negated
              /\ glob_match(toks, i + 1, name, j + 1)

fnmatch(name, pat) == glob_match(translate(pat, 1, <<>>), 1, name, 1)

(***************************************************************************)
(* get_strategy                                                            *)
(***************************************************************************)
\* sorted(strategies_mapping.items()): the items ordered by their (unique) keys
RECURSIVE sorted_items(_)
sorted_items(items) ==
    IF items = {} THEN <<>>
    ELSE LET m == CHOOSE x \in items : \A y \in items \ {x} : SeqLess(x[1], y[1])
         IN  <<m>> \o sorted_items(items \ {m})

\* the first item of the sequence whose pattern matches, else the default
RECURSIVE first_match(_, _, _)
first_match(items, p, default_strategy) ==
    IF items = <<>> THEN default_strategy
    ELSE IF fnmatch(p, items[1][1]) THEN items[1][2]
    ELSE first_match(Tail(items), p, default_strategy)

\* a faulty get_strategy: the items are walked in insertion order, unsorted
get_strategy_unsorted(mapping, default_strategy, p) ==
    first_match(mapping, p, default_strategy)

\* mapping: a sequence of <<glob_pattern, strategy_node>> in insertion order
get_strategy(mapping, default_strategy, p) ==
    first_match(sorted_items(Range(mapping)), p, default_strategy)

(***************************************************************************)
(* configparser.ConfigParser (strict, "=" and ":" delimiters, "#" and ";"  *)
(* full-line comments, empty lines in values, keys lower-cased).           *)
(*                                                                         *)
(* A parser is [defaults, sections]: defaults is the option list of the    *)
(* default section, sections the sequence of [name, opts] in insertion     *)
(* order; an option list is a sequence of <<key, value>> in insertion      *)
(* order.  A parser that could not be read is [error |-> <exception>].     *)
(***************************************************************************)
\* "__scaraplate_internal_nonexisting_default"
InternalDefaultSection == 
    <<95, 95, 115, 99, 97, 114, 97, 112, 108, 97, 116, 101, 95, 105, 110, 116,
    101, 114, 110, 97, 108, 95, 110, 111, 110, 101, 120, 105, 115, 116, 105, 110,
    103, 95, 100, 101, 102, 97, 117, 108, 116>>

\* "DEFAULT", configparser.DEFAULTSECT
DEFAULTSECT == <<68, 69, 70, 65, 85, 76, 84>>

EmptyParser == [error |-> "no", defaults |-> <<>>, sections |-> <<>>]

\* index of the section called name, or 0
section_index(sections, name) ==
    LET found == {i \in 1..Len(sections) : sections[i].name = name}
    IN  IF found = {} THEN 0 ELSE MinOf(found)

\* index of the option called key in an option list, or 0
option_index(opts, key) ==
    LET found == {i \in 1..Len(opts) : opts[i][1] = key}
    IN  IF found = {} THEN 0 ELSE MinOf(found)

\* dict assignment opts[key] = value: in place when the key exists, else appended
opts_set(opts, key, value) ==
    LET i == option_index(opts, key)
    IN  IF i = 0 THEN Append(opts, <<key, value>>)
        ELSE [opts EXCEPT ![i] = <<key, value>>]

\* NONSPACECRE.search(line).start(): the number of leading whitespace characters
indent_of(line) ==
    IF first_not_in(line, 1, Whitespace) = 0 THEN 0
    ELSE first_not_in(line, 1, Whitespace) - 1

\* SECTCRE.match(value): "[" header "]" with the longest non-empty header
is_section_header(value) ==
    Len(value) >= 3 /\ value[1] = 91 /\ last_in(value, {93}) >= 3

\* mo.group("header")
section_header(value) == SubSeq(value, 2, last_in(value, {93}) - 1)

\* _optcre.match(value): the index of the first delimiter, or 0
delimiter_index(value) == first_in(value, 1, {61, 58})

\* the current section's option list while reading: cur = -1 is the default section
cursect_opts(st) == IF st.cur = -1 THEN st.defaults ELSE st.sections[st.cur].opts

with_cursect_opts(st, opts) ==
    IF st.cur = -1 THEN [st EXCEPT !.defaults = opts]
    ELSE [st EXCEPT !.sections[st.cur].opts = opts]

\* cursect[optname].append(value): values are lists of lines until the end of _read
append_value_line(st, value) ==
    LET opts == cursect_opts(st)
        i == option_index(opts, st.optname[1])
    IN  with_cursect_opts(st, [opts EXCEPT ![i] = <<opts[i][1], Append(opts[i][2], value)>>])

\* a section header line: cursect becomes the section of that name
read_section(st, sectname, cur_indent_level, default_section) ==
    IF section_index(st.sections, sectname) # 0
    THEN [st EXCEPT !.error = "DuplicateSectionError"]
    ELSE IF sectname = default_section
    THEN [st EXCEPT !.cur = -1, !.optname = <<>>, !.indent_level = cur_indent_level]
    ELSE [st EXCEPT !.sections = Append(@, [name |-> sectname, opts |-> <<>>]),
                    !.cur = Len(st.sections) + 1,
                    !.optname = <<>>,
                    !.indent_level = cur_indent_level]

\* an option line, split at its delimiter: optname = optionxform(option.rstrip())
read_option(st, optname, optval, cur_indent_level) ==
    IF <<st.cur, optname>> \in st.added
    THEN [st EXCEPT !.error = "DuplicateOptionError"]
    ELSE [with_cursect_opts(st, opts_set(cursect_opts(st), optname, <<optval>>))
             EXCEPT !.optname = <<optname>>,
                    !.indent_level = cur_indent_level,
                    !.added = @ \cup {<<st.cur, optname>>},
                    !.error = IF optname = <<>> THEN "ParsingError" ELSE @]

\* a line inside a section that is no header: d is the index of its delimiter
read_option_line(st, value, d, cur_indent_level) ==
    IF d = 0
    THEN [st EXCEPT !.error = "ParsingError", !.indent_level = cur_indent_level]
    ELSE read_option(st, casefold(rstrip(SubSeq(value, 1, d - 1), Whitespace)),
                     strip(SubSeq(value, d + 1, Len(value))), cur_indent_level)

\* cursect is not None and optname is set: a value can be continued
has_optname(st) == st.cur # 0 /\ st.optname # <<>> /\ st.optname[1] # <<>>

\* value: the stripped line, empty for a comment line
read_value(st, value, is_comment, cur_indent_level, default_section) ==
    IF st.error \notin {"no", "ParsingError"} THEN st
    ELSE IF value = <<>>
    THEN IF ~is_comment /\ has_optname(st) THEN append_value_line(st, <<>>) ELSE st
    ELSE IF has_optname(st) /\ cur_indent_level > st.indent_level
    THEN append_value_line(st, value)
    ELSE IF is_section_header(value)
    THEN read_section(st, section_header(value), cur_indent_level, default_section)
    ELSE IF st.cur = 0
    THEN [st EXCEPT !.error = "MissingSectionHeaderError"]
    ELSE read_option_line(st, value, delimiter_index(value), cur_indent_level)

\* a full-line comment starts with "#" or ";"
is_comment_line(stripped) ==
    StartsWith(stripped, <<35>>) \/ StartsWith(stripped, <<59>>)

read_stripped(st, stripped, cur_indent_level, default_section) ==
    read_value(st, IF is_comment_line(stripped) THEN <<>> ELSE stripped,
               is_comment_line(stripped), cur_indent_level, default_section)

\* one iteration of the loop of RawConfigParser._read
\* st: [error, defaults, sections, cur, optname, indent_level, added]
\* cur: 0 (cursect is None), -1 (the default section) or an index into sections
\* optname: <<>> (None) or <<key>>
read_line(st, line, default_section) ==
    read_stripped(st, strip(line), indent_of(line), default_section)

RECURSIVE read_lines(_, _, _, _)
read_lines(st, lines, i, default_section) ==
    IF i > Len(lines) THEN st
    ELSE read_lines(read_line(st, lines[i], default_section), lines, i + 1, default_section)

\* _join_multiline_values: "\n".join(val).rstrip()
join_multiline_values(opts) ==
    [i \in 1..Len(opts) |-> <<opts[i][1], rstrip(Join(opts[i][2], <<LF>>), Whitespace)>>]

\* the parser once every line is read: the value lines of each option are joined
finish_read(st) ==
    IF st.error # "no" THEN [error |-> st.error]
    ELSE [error |-> "no",
          defaults |-> join_multiline_values(st.defaults),
          sections |-> [i \in 1..Len(st.sections) |->
                           [name |-> st.sections[i].name,
                            opts |-> join_multiline_values(st.sections[i].opts)]]]

\* RawConfigParser.read_string on a fresh parser; the lines are those io.StringIO yields
read_string(lines, default_section) ==
    finish_read(read_lines([error |-> "no", defaults |-> <<>>, sections |-> <<>>,
                            cur |-> 0, optname |-> <<>>, indent_level |-> 0,
                            added |-> {}],
                           lines, 1, default_section))

\* Python: s.replace(c, by) for a single character c
RECURSIVE replace_char(_, _, _)
replace_char(s, c, by) ==
    LET i == first_in(s, 1, {c})
    IN  IF i = 0 THEN s
        ELSE SubSeq(s, 1, i - 1) \o by \o replace_char(SubSeq(s, i + 1, Len(s)), c, by)

\* RawConfigParser._write_section
RECURSIVE write_options(_)
write_options(opts) ==
    IF opts = <<>> THEN <<>>
    ELSE opts[1][1] \o <<SP, 61, SP>> \o replace_char(opts[1][2], LF, <<LF, TAB>>)
         \o <<LF>> \o write_options(Tail(opts))

write_section(name, opts) ==
    <<91>> \o name \o <<93, LF>> \o write_options(opts) \o <<LF>>

RECURSIVE write_sections(_)
write_sections(sections) ==
    IF sections = <<>> THEN <<>>
    ELSE write_section(sections[1].name, sections[1].opts) \o write_sections(Tail(sections))

\* ConfigParserMerge._parser_to_str: parser.write(buffer)
_parser_to_str(parser, default_section) ==
    (IF parser.defaults # <<>> THEN write_section(default_section, parser.defaults) ELSE <<>>)
    \o write_sections(parser.sections)

\* io.StringIO(text): the lines a text file object yields, split after every "\n"
RECURSIVE keepends_lines(_, _, _)
keepends_lines(s, start, acc) ==
    LET i == first_in(s, start, {LF})
    IN  IF start > Len(s) THEN acc
        ELSE IF i = 0 THEN Append(acc, SubSeq(s, start, Len(s)))
        ELSE keepends_lines(s, i + 1, Append(acc, SubSeq(s, start, i)))

(***************************************************************************)
(* configparser.BasicInterpolation: the values a parser hands out are      *)
(* interpolated, the values it is given are checked                        *)
(***************************************************************************)
\* _KEYCRE = r"%\(([^)]+)\)s" matched at index p of rest: the index of ")", or 0
key_end(rest, p) ==
    LET close == first_in(rest, p + 2, {41})
    IN  IF close > p + 2 /\ close < Len(rest) /\ rest[close + 1] = 115 THEN close ELSE 0

RECURSIVE _interpolate_some(_, _, _, _)
RECURSIVE interpolate_at(_, _, _, _, _)
\* the interpolation goes on after the value of a "%(name)s" reference
interpolate_rest(interpolated, rest, map, depth) ==
    IF interpolated.error # "no" THEN interpolated
    ELSE _interpolate_some(interpolated.out, rest, map, depth)

\* "%(name)s" at the start of rest, close the index of its ")": map[name] is looked
\* up and is itself interpolated when it holds a "%"
interpolate_key(accum, rest, map, depth, close, i) ==
    IF close = 0 THEN [error |-> "InterpolationSyntaxError"]
    ELSE IF i = 0 THEN [error |-> "InterpolationMissingOptionError"]
    ELSE interpolate_rest(
             IF first_in(map[i][2], 1, {37}) # 0
             THEN _interpolate_some(accum, map[i][2], map, depth + 1)
             ELSE [error |-> "no", out |-> accum \o map[i][2]],
             SubSeq(rest, close + 2, Len(rest)), map, depth)

\* one turn of the loop of _interpolate_some: p is rest.find("%")
interpolate_at(accum, rest, map, depth, p) ==
    IF p = 0 THEN [error |-> "no", out |-> accum \o rest]
    ELSE IF p < Len(rest) /\ rest[p + 1] = 37
    THEN _interpolate_some(accum \o SubSeq(rest, 1, p), SubSeq(rest, p + 2, Len(rest)),
                           map, depth)
    ELSE IF p < Len(rest) /\ rest[p + 1] = 40
    THEN interpolate_key(accum \o SubSeq(rest, 1, p - 1), SubSeq(rest, p, Len(rest)), map,
                         depth, key_end(SubSeq(rest, p, Len(rest)), 1),
                         IF key_end(SubSeq(rest, p, Len(rest)), 1) = 0 THEN 0
                         ELSE option_index(
                                  map,
                                  casefold(SubSeq(rest, p + 2,
                                                  p + key_end(SubSeq(rest, p, Len(rest)), 1) - 2))))
    ELSE [error |-> "InterpolationSyntaxError"]

\* BasicInterpolation._interpolate_some: [error, out]; map holds the raw options of
\* the section, MAX_INTERPOLATION_DEPTH is 10
_interpolate_some(accum, rest, map, depth) ==
    IF depth > 10 THEN [error |-> "InterpolationDepthError"]
    ELSE interpolate_at(accum, rest, map, depth, first_in(rest, 1, {37}))

\* parser[section][key] for the i-th option of the section: [error, out]
get_value(opts, i) == _interpolate_some(<<>>, opts[i][2], opts, 1)

\* parser[section].items(), from the i-th option on: [error, opts]
RECURSIVE items_from(_, _, _)
next_item(opts, i, acc, value) ==
    IF value.error # "no" THEN [error |-> value.error]
    ELSE items_from(opts, i + 1, Append(acc, <<opts[i][1], value.out>>))

items_from(opts, i, acc) ==
    IF i > Len(opts) THEN [error |-> "no", opts |-> acc]
    ELSE next_item(opts, i, acc, get_value(opts, i))

\* dict(parser[section]) of an option list
section_items(opts) == items_from(opts, 1, <<>>)

\* value.replace("%%", ""), from index start on
RECURSIVE without_escapes(_, _)
without_escapes(value, start) ==
    LET found == {i \in start..(Len(value) - 1) : value[i] = 37 /\ value[i + 1] = 37}
    IN  IF found = {} THEN value
        ELSE without_escapes(SubSeq(value, 1, MinOf(found) - 1)
                             \o SubSeq(value, MinOf(found) + 2, Len(value)),
                             MinOf(found))

\* _KEYCRE.sub("", value), from index start on
RECURSIVE without_keys(_, _)
without_keys(value, start) ==
    LET found == {i \in start..(Len(value) - 1) :
                     /\ value[i] = 37
                     /\ value[i + 1] = 40
                     /\ key_end(SubSeq(value, i, Len(value)), 1) # 0}
    IN  IF found = {} THEN value
        ELSE without_keys(
                 SubSeq(value, 1, MinOf(found) - 1)
                 \o SubSeq(value,
                           MinOf(found)
                           + key_end(SubSeq(value, MinOf(found), Len(value)), 1) + 1,
                           Len(value)),
                 MinOf(found))

\* BasicInterpolation.before_set raises ValueError for the value
invalid_to_set(value) == first_in(without_keys(without_escapes(value, 1), 1), 1, {37}) # 0

(***************************************************************************)
(* ConfigParserMerge                                                       *)
(*                                                                         *)
(* config: [preserve_sections, preserve_keys]; preserve_sections is a      *)
(* sequence of [sections, excluded_keys] with excluded_keys <<>> (None) or *)
(* <<pattern>>; preserve_keys is a sequence of [sections, keys].           *)
(***************************************************************************)
\* "".join(f"{line}\n" for line in text.splitlines()), as the lines of the text
with_newlines(lines) == [i \in 1..Len(lines) |-> Append(lines[i], LF)]

\* ConfigParserMerge.parse_config
parse_config(data) ==
    read_string(with_newlines(str_splitlines(data)), InternalDefaultSection)

has_section(parser, section) == section_index(parser.sections, section) # 0

\* ConfigParserMerge.ensure_section
ensure_section(parser, section) ==
    IF has_section(parser, section) THEN parser
    ELSE [parser EXCEPT !.sections = Append(@, [name |-> section, opts |-> <<>>])]

\* parser[section][key] = value, for an existing section
set_option(parser, section, key, value) ==
    IF invalid_to_set(value) THEN [error |-> "ValueError"]
    ELSE [parser EXCEPT !.sections[section_index(parser.sections, section)].opts =
                            opts_set(@, key, value)]

\* parser[section] = section_data: the section is cleared or created, then filled
set_section(parser, section, section_data) ==
    LET p == ensure_section(parser, section)
    IN  IF \E i \in 1..Len(section_data) : invalid_to_set(section_data[i][2])
        THEN [error |-> "ValueError"]
        ELSE [p EXCEPT !.sections[section_index(p.sections, section)].opts = section_data]

\* the option list of parser[section]
section_opts(parser, section) ==
    parser.sections[section_index(parser.sections, section)].opts

\* for key, value in opts: if pattern.match(key): section_data[key] = value
RECURSIVE overlay_matching(_, _, _)
overlay_matching(section_data, opts, pattern) ==
    IF opts = <<>> THEN section_data
    ELSE overlay_matching(
             IF pattern_match(pattern, opts[1][1])
             THEN opts_set(section_data, opts[1][1], opts[1][2])
             ELSE section_data,
             Tail(opts), pattern)

\* the template keys that match ignore_keys_pattern are laid over section_data
overlay_section(template_parser, name, section_data, template_items, ignore_keys_pattern) ==
    IF template_items.error # "no" THEN [error |-> template_items.error]
    ELSE set_section(template_parser, name,
                     overlay_matching(section_data, template_items.opts, ignore_keys_pattern))

\* the body of the loop of maybe_preserve_sections once section_data is read
preserve_section_data(template_parser, name, section_data, ignore_keys_pattern) ==
    IF section_data.error # "no" THEN [error |-> section_data.error]
    ELSE IF ignore_keys_pattern = <<>>
    THEN set_section(template_parser, name, section_data.opts)
    ELSE IF ~has_section(template_parser, name)
    THEN [error |-> "KeyError"]
    ELSE overlay_section(template_parser, name, section_data.opts,
                         section_items(section_opts(template_parser, name)),
                         ignore_keys_pattern[1])

\* the body of the loop of maybe_preserve_sections for one target section
preserve_section(template_parser, target_section, sections_pattern, ignore_keys_pattern) ==
    IF ~pattern_match(sections_pattern, target_section.name) THEN template_parser
    ELSE preserve_section_data(template_parser, target_section.name,
                               section_items(target_section.opts), ignore_keys_pattern)

\* ConfigParserMerge.maybe_preserve_sections, from the i-th target section on
RECURSIVE maybe_preserve_sections(_, _, _, _, _)
maybe_preserve_sections(template_parser, target_parser, i, sections_pattern, ignore_keys_pattern) ==
    IF template_parser.error # "no" \/ i > Len(target_parser.sections)
    THEN template_parser
    ELSE maybe_preserve_sections(
             preserve_section(template_parser, target_parser.sections[i],
                              sections_pattern, ignore_keys_pattern),
             target_parser, i + 1, sections_pattern, ignore_keys_pattern)

\* the inner loop of maybe_preserve_key over the options of one target section,
\* from the i-th option on
RECURSIVE preserve_keys_of(_, _, _, _, _)
preserve_key(template_parser, section, opts, i, keys_pattern, value) ==
    IF value.error # "no" THEN [error |-> value.error]
    ELSE preserve_keys_of(
             IF pattern_match(keys_pattern, opts[i][1])
             THEN set_option(ensure_section(template_parser, section), section,
                             opts[i][1], value.out)
             ELSE template_parser,
             section, opts, i + 1, keys_pattern)

preserve_keys_of(template_parser, section, opts, i, keys_pattern) ==
    IF template_parser.error # "no" \/ i > Len(opts) THEN template_parser
    ELSE preserve_key(template_parser, section, opts, i, keys_pattern, get_value(opts, i))

\* ConfigParserMerge.maybe_preserve_key, from the i-th target section on
RECURSIVE maybe_preserve_key(_, _, _, _, _)
maybe_preserve_key(template_parser, target_parser, i, sections_pattern, keys_pattern) ==
    IF template_parser.error # "no" \/ i > Len(target_parser.sections) THEN template_parser
    ELSE maybe_preserve_key(
             IF pattern_match(sections_pattern, target_parser.sections[i].name)
             THEN preserve_keys_of(template_parser, target_parser.sections[i].name,
                                   target_parser.sections[i].opts, 1, keys_pattern)
             ELSE template_parser,
             target_parser, i + 1, sections_pattern, keys_pattern)

\* for ini_key in self.config["preserve_sections"]: self.maybe_preserve_sections(...)
RECURSIVE preserve_sections_loop(_, _, _)
preserve_sections_loop(template_parser, target_parser, entries) ==
    IF template_parser.error # "no" \/ entries = <<>> THEN template_parser
    ELSE preserve_sections_loop(
             maybe_preserve_sections(template_parser, target_parser, 1,
                                     entries[1].sections, entries[1].excluded_keys),
             target_parser, Tail(entries))

\* for ini_key in self.config["preserve_keys"]: self.maybe_preserve_key(...)
RECURSIVE preserve_keys_loop(_, _, _)
preserve_keys_loop(template_parser, target_parser, entries) ==
    IF template_parser.error # "no" \/ entries = <<>> THEN template_parser
    ELSE preserve_keys_loop(
             maybe_preserve_key(template_parser, target_parser, 1,
                                entries[1].sections, entries[1].keys),
             target_parser, Tail(entries))

\* ConfigParserMerge.merge_configs: the template parser after the merge.
\* target_parser is <<>> (None) or <<parser>>.
ConfigParserMerge_merge_configs(cfg, template_parser, target_parser) ==
    IF target_parser = <<>> THEN template_parser
    ELSE LET preserved == preserve_sections_loop(template_parser, target_parser[1],
                                                 cfg.preserve_sections)
         IN  IF preserved.error # "no" THEN preserved
             ELSE preserve_keys_loop(preserved, target_parser[1], cfg.preserve_keys)

\* sorted(d.items()) of an option list (the keys are unique)
RECURSIVE sorted_opts(_)
sorted_opts(S) ==
    IF S = {} THEN <<>>
    ELSE LET m == CHOOSE x \in S : \A y \in S \ {x} : SeqLess(x[1], y[1])
         IN  <<m>> \o sorted_opts(S \ {m})

\* sorted(out._sections.items()) (the names are unique)
RECURSIVE sorted_sections(_)
sorted_sections(S) ==
    IF S = {} THEN <<>>
    ELSE LET m == CHOOSE x \in S : \A y \in S \ {x} : SeqLess(x.name, y.name)
         IN  <<m>> \o sorted_sections(S \ {m})

\* the sections of a parser and the options of each section, sorted
sort_sections(out) ==
    IF out.error # "no" THEN out
    ELSE [out EXCEPT !.sections =
             sorted_sections({[name |-> out.sections[i].name,
                               opts |-> sorted_opts(Range(out.sections[i].opts))]
                              : i \in 1..Len(out.sections)})]

\* ConfigParserMerge._sorted_configparser: the written parser read again by a
\* ConfigParser with the default section "DEFAULT", its _sections sorted
_sorted_configparser(parser) ==
    sort_sections(read_string(keepends_lines(_parser_to_str(parser, InternalDefaultSection),
                                             1, <<>>),
                              DEFAULTSECT))

\* acc of parser_to_pretty_output: line.rstrip() of every line
rstrip_lines(lines) == [i \in 1..Len(lines) |-> rstrip(lines[i], Whitespace)]

\* the sorted parser written, tabs replaced, lines stripped and joined: [error, out]
pretty_output(sorted, newline) ==
    IF sorted.error # "no" THEN [error |-> sorted.error]
    ELSE [error |-> "no",
          out |-> Join(rstrip_lines(str_splitlines(
                           replace_char(_parser_to_str(sorted, DEFAULTSECT), TAB,
                                        <<SP, SP, SP, SP>>))),
                       newline)]

\* ConfigParserMerge.parser_to_pretty_output: [error, out]
parser_to_pretty_output(parser, newline) ==
    pretty_output(_sorted_configparser(parser), newline)

\* parser_to_pretty_output(template_parser) after merge_configs: [error, out]
merged_output(merged, newline) ==
    IF merged.error # "no" THEN [error |-> merged.error]
    ELSE parser_to_pretty_output(merged, newline)

\* the parser of the target, <<>> when there is no target
parse_target(target) == IF target = None THEN <<>> ELSE <<parse_config(target)>>

\* the exception parse_config raises for the template or for the target, or "no"
parse_error(template_parser, target_parser) ==
    IF template_parser.error # "no" THEN template_parser.error
    ELSE IF target_parser # <<>> /\ target_parser[1].error # "no"
    THEN target_parser[1].error
    ELSE "no"

\* ConfigParserMerge.apply from the parsers on: [error, out]
config_apply(cfg, template_parser, target_parser, newline) ==
    IF parse_error(template_parser, target_parser) # "no"
    THEN [error |-> parse_error(template_parser, target_parser)]
    ELSE merged_output(ConfigParserMerge_merge_configs(cfg, template_parser, target_parser),
                       newline)

ConfigParserMerge_apply(cfg, target, template) ==
    config_apply(cfg, parse_config(template), parse_target(target),
                 detect_newline(<<target, template>>, <<LF>>))

(***************************************************************************)
(* SetupCfgMerge                                                           *)
(*                                                                         *)
(* config: that of ConfigParserMerge and merge_requirements, a sequence of *)
(* [sections, keys].                                                       *)
(***************************************************************************)
IsAlnum(c) == (c >= 48 /\ c <= 57) \/ (c >= 65 /\ c <= 90) \/ (c >= 97 /\ c <= 122)

\* Python: requirements.split(): the maximal runs of non-whitespace characters
RECURSIVE split_whitespace(_, _, _)
split_whitespace(s, start, acc) ==
    LET i == first_not_in(s, start, Whitespace)
        j == first_in(s, i, Whitespace)
    IN  IF start > Len(s) \/ i = 0 THEN acc
        ELSE IF j = 0 THEN Append(acc, SubSeq(s, i, Len(s)))
        ELSE split_whitespace(s, j + 1, Append(acc, SubSeq(s, i, j - 1)))

\* SetupCfgMerge._parse_setupcfg_requirements
_parse_setupcfg_requirements(requirements) == split_whitespace(requirements, 1, <<>>)

\* self._parse_setupcfg_requirements(requirements) of the value that was read
parsed_value(value) ==
    IF value.error # "no" THEN [error |-> value.error]
    ELSE [error |-> "no", out |-> _parse_setupcfg_requirements(value.out)]

\* SetupCfgMerge._parse_requirements: [error, out]; out is [] when the section or
\* the key is missing, parser[section][key] is read through the interpolation
_parse_requirements(parser, section, key) ==
    IF ~has_section(parser, section) THEN [error |-> "no", out |-> <<>>]
    ELSE LET opts == section_opts(parser, section)
             i == option_index(opts, casefold(key))
         IN  IF i = 0 THEN [error |-> "no", out |-> <<>>]
             ELSE parsed_value(get_value(opts, i))

\* the length of the distribution name a requirement starts with: letters, digits,
\* ".", "_" and "-", starting and ending with a letter or a digit (0: no name)
name_length(full_requirement) ==
    LET ends == {n \in 1..Len(full_requirement) :
                    /\ \A i \in 1..n : IsAlnum(full_requirement[i])
                                       \/ full_requirement[i] \in {45, 46, 95}
                    /\ IsAlnum(full_requirement[1])
                    /\ IsAlnum(full_requirement[n])}
    IN  IF ends = {} THEN 0 ELSE MaxOf(ends)

\* packaging.requirements.Requirement(full_requirement) raises InvalidRequirement:
\* no name, or the name is followed by something other than extras, a version
\* specifier or a marker
invalid_requirement(full_requirement) ==
    LET n == name_length(full_requirement)
    IN  \/ n = 0
        \/ /\ n < Len(full_requirement)
           /\ full_requirement[n + 1] \notin {91, 60, 61, 62, 33, 126, 59}

\* SetupCfgMerge._requirement_name
_requirement_name(full_requirement) ==
    SubSeq(full_requirement, 1, name_length(full_requirement))

\* normalize_requirement of _merge_requirements
normalize_requirement(requirement) == casefold(_requirement_name(requirement))

\* the template requirements whose name the target does not have, in template order
RECURSIVE missing_requirements(_, _)
missing_requirements(template_requirements, existing_requirement_names) ==
    IF template_requirements = <<>> THEN <<>>
    ELSE (IF normalize_requirement(template_requirements[1]) \in existing_requirement_names
          THEN <<>> ELSE <<template_requirements[1]>>)
         \o missing_requirements(Tail(template_requirements), existing_requirement_names)

\* sorted(wanted_requirements, key=str.casefold): a stable sort of a list
RECURSIVE sorted_casefold(_)
sorted_casefold(reqs) ==
    IF reqs = <<>> THEN <<>>
    ELSE LET i == MinOf({k \in 1..Len(reqs) :
                            \A j \in 1..Len(reqs) :
                                ~SeqLess(casefold(reqs[j]), casefold(reqs[k]))})
         IN  <<reqs[i]>> \o sorted_casefold(SubSeq(reqs, 1, i - 1)
                                            \o SubSeq(reqs, i + 1, Len(reqs)))

\* SetupCfgMerge._dump_setupcfg_requirements
_dump_setupcfg_requirements(requirements, newline) ==
    Join(<<<<>>>> \o requirements, newline)

\* wanted_requirements of _merge_requirements, sorted
wanted_requirements(template_requirements, target_requirements) ==
    sorted_casefold(
        target_requirements
        \o missing_requirements(template_requirements,
                                {normalize_requirement(target_requirements[i])
                                 : i \in 1..Len(target_requirements)}))

\* packaging raises InvalidRequirement for one of the requirements
any_invalid(requirements) ==
    \E i \in 1..Len(requirements) : invalid_requirement(requirements[i])

\* parser[section][key] = result in the template parser only
set_requirements_template_only(template_parser, target_parser, section, key, result) ==
    IF invalid_to_set(result) THEN <<[error |-> "ValueError"], target_parser>>
    ELSE <<set_option(ensure_section(template_parser, section), section,
                      casefold(key), result),
           target_parser>>

\* parser[section][key] = result in the template parser and in the target parser
set_requirements(template_parser, target_parser, section, key, result) ==
    IF invalid_to_set(result) THEN <<[error |-> "ValueError"], target_parser>>
    ELSE <<set_option(ensure_section(template_parser, section), section,
                      casefold(key), result),
           IF target_parser = <<>> THEN <<>>
           ELSE <<set_option(ensure_section(target_parser[1], section), section,
                             casefold(key), result)>>>>

merge_parsed_requirements(template_parser, target_parser, section, key, template_requirements, target_requirements, newline) ==
    IF template_requirements.error # "no"
    THEN <<[error |-> template_requirements.error], target_parser>>
    ELSE IF target_requirements.error # "no"
    THEN <<[error |-> target_requirements.error], target_parser>>
    ELSE IF any_invalid(target_requirements.out \o template_requirements.out)
    THEN <<[error |-> "InvalidRequirement"], target_parser>>
    ELSE set_requirements(template_parser, target_parser, section, key,
                          _dump_setupcfg_requirements(
                              wanted_requirements(template_requirements.out,
                                                  target_requirements.out),
                              newline))

\* SetupCfgMerge._merge_requirements: <<template_parser, target_parser>> afterwards;
\* target_parser is <<>> (None) or <<parser>>
_merge_requirements(template_parser, target_parser, section, key, newline) ==
    IF template_parser.error # "no" THEN <<template_parser, target_parser>>
    ELSE merge_parsed_requirements(
             template_parser, target_parser, section, key,
             _parse_requirements(template_parser, section, key),
             IF target_parser = <<>> THEN [error |-> "no", out |-> <<>>]
             ELSE _parse_requirements(target_parser[1], section, key),
             newline)

\* the (section, key) pairs of a parser that an entry of merge_requirements selects
selected_keys(parser, ini_key) ==
    UNION {{<<parser.sections[i].name, parser.sections[i].opts[j][1]>> :
               j \in {j \in 1..Len(parser.sections[i].opts) :
                         /\ pattern_match(ini_key.sections, parser.sections[i].name)
                         /\ pattern_match(ini_key.keys, parser.sections[i].opts[j][1])}}
           : i \in 1..Len(parser.sections)}

\* the set `keys` of SetupCfgMerge.merge_configs
requirement_keys(cfg, template_parser, target_parser) ==
    UNION {selected_keys(template_parser, cfg.merge_requirements[n])
           \cup (IF target_parser = <<>> THEN {}
                 ELSE selected_keys(target_parser[1], cfg.merge_requirements[n]))
           : n \in 1..Len(cfg.merge_requirements)}

\* the exceptions that parser[section].items() raises for the sections an entry of
\* merge_requirements selects, in the order of the sections ("no": none)
items_errors(parser, ini_key) ==
    [i \in 1..Len(parser.sections) |->
        IF pattern_match(ini_key.sections, parser.sections[i].name)
        THEN section_items(parser.sections[i].opts).error
        ELSE "no"]

\* the first exception of a sequence of outcomes, "no" when there is none
first_error(errors) ==
    IF \A i \in 1..Len(errors) : errors[i] = "no" THEN "no"
    ELSE errors[MinOf({i \in 1..Len(errors) : errors[i] # "no"})]

\* the loops that fill `keys`: the target parser is walked before the template
\* parser for every entry of merge_requirements
keys_errors(entries, template_parser, target_parser, n) ==
    (IF target_parser = <<>> THEN <<>> ELSE items_errors(target_parser[1], entries[n]))
    \o items_errors(template_parser, entries[n])

\* the exception raised while `keys` is filled, "no" when there is none
keys_error(cfg, template_parser, target_parser) ==
    first_error([n \in 1..Len(cfg.merge_requirements) |->
                    first_error(keys_errors(cfg.merge_requirements, template_parser,
                                            target_parser, n))])

\* the orders in which `for section, key in keys` can walk the set: the iteration
\* order of a set of tuples of str depends on the hash seed of the process
key_orders(keys) ==
    {order \in [1..Cardinality(keys) -> keys] :
        \A i, j \in 1..Cardinality(keys) : order[i] = order[j] => i = j}

\* sorted(keys): the ascending walk
RECURSIVE sorted_keys(_)
sorted_keys(keys) ==
    IF keys = {} THEN <<>>
    ELSE LET k == CHOOSE x \in keys : \A y \in keys \ {x} :
                      SeqLess(x[1], y[1]) \/ (x[1] = y[1] /\ SeqLess(x[2], y[2]))
         IN  <<k>> \o sorted_keys(keys \ {k})

\* for section, key in keys: self._merge_requirements(...), walking keys in order
RECURSIVE merge_requirements_loop(_, _, _)
merge_requirements_loop(parsers, order, newline) ==
    IF order = <<>> \/ parsers[1].error # "no" THEN parsers
    ELSE merge_requirements_loop(
             _merge_requirements(parsers[1], parsers[2], order[1][1], order[1][2], newline),
             Tail(order), newline)

\* super().merge_configs(template_parser, target_parser) on the merged parsers
merge_after_requirements(cfg, merged) ==
    IF merged[1].error # "no" THEN merged[1]
    ELSE ConfigParserMerge_merge_configs(cfg, merged[1], merged[2])

\* SetupCfgMerge.merge_configs: the template parser after the merge
SetupCfgMerge_merge_configs(cfg, template_parser, target_parser, newline, order) ==
    IF keys_error(cfg, template_parser, target_parser) # "no"
    THEN [error |-> keys_error(cfg, template_parser, target_parser)]
    ELSE merge_after_requirements(
             cfg, merge_requirements_loop(<<template_parser, target_parser>>, order,
                                          newline))

parsed_key_orders(cfg, template_parser, target_parser) ==
    IF parse_error(template_parser, target_parser) # "no" THEN {<<>>}
    ELSE IF keys_error(cfg, template_parser, target_parser) # "no" THEN {<<>>}
    ELSE key_orders(requirement_keys(cfg, template_parser, target_parser))

\* the walks of `keys` that SetupCfgMerge.apply can take for these buffers
SetupCfgMerge_key_orders(cfg, target, template) ==
    parsed_key_orders(cfg, parse_config(template), parse_target(target))

\* ConfigParserMerge.apply with SetupCfgMerge.merge_configs, from the parsers on
setupcfg_apply(cfg, template_parser, target_parser, newline, order) ==
    IF parse_error(template_parser, target_parser) # "no"
    THEN [error |-> parse_error(template_parser, target_parser)]
    ELSE merged_output(SetupCfgMerge_merge_configs(cfg, template_parser, target_parser,
                                                   newline, order),
                       newline)

\* ConfigParserMerge.apply with SetupCfgMerge.merge_configs, `keys` walked in order
SetupCfgMerge_apply(cfg, target, template, order) ==
    setupcfg_apply(cfg, parse_config(template), parse_target(target),
                   detect_newline(<<target, template>>, <<LF>>), order)

(***************************************************************************)
(* Text literals: the code points of a string of ASCII characters          *)
(***************************************************************************)
\* the ASCII characters from " " (32) to "_" (95) and from "a" (97) to "~" (126)
UpperChars == " !\"#$%&'()*+,-./0123456789:;<=>?@ABCDEFGHIJKLMNOPQRSTUVWXYZ[\\]^_"

LowerChars == "abcdefghijklmnopqrstuvwxyz{|}~"

\* Python: ord(c)
ord(c) ==
    IF c = "\n" THEN LF
    ELSE IF c = "\r" THEN CR
    ELSE IF c = "\t" THEN TAB
    ELSE IF \E i \in 1..Len(LowerChars) : SubSeq(LowerChars, i, i) = c
    THEN 96 + (CHOOSE i \in 1..Len(LowerChars) : SubSeq(LowerChars, i, i) = c)
    ELSE 31 + (CHOOSE i \in 1..Len(UpperChars) : SubSeq(UpperChars, i, i) = c)

\* Python: s.encode("ascii")
b(s) == [i \in 1..Len(s) |-> ord(SubSeq(s, i, i))]

\* all sequences of at most n elements of S
SeqsUpTo(S, n) == UNION {[1..k -> S] : k \in 0..n}

(***************************************************************************)
(* Strategy.apply of the class the StrategyNode names                      *)
(***************************************************************************)
Strategies ==
    {"Overwrite", "IfMissing", "SortedUniqueLines", "TemplateHash",
     "RenderedTemplateFileHash", "ConfigParserMerge", "SetupCfgMerge"}

\* strategy.apply(): [error, out]; error is "no" or the name of the exception raised.
\* order is the walk of the set `keys` (SetupCfgMerge only).
apply(strat, cfg, meta, target, template, order) ==
    CASE strat = "Overwrite" ->
             [error |-> "no", out |-> Overwrite_apply(target, template)]
      [] strat = "IfMissing" ->
             [error |-> "no", out |-> IfMissing_apply(target, template)]
      [] strat = "SortedUniqueLines" ->
             [error |-> "no", out |-> SortedUniqueLines_apply(cfg, target, template)]
      [] strat = "TemplateHash" ->
             [error |-> "no", out |-> TemplateHash_apply(cfg, meta, target, template)]
      [] strat = "RenderedTemplateFileHash" ->
             [error |-> "no",
              out |-> RenderedTemplateFileHash_apply(cfg, meta, target, template)]
      [] strat = "ConfigParserMerge" -> ConfigParserMerge_apply(cfg, target, template)
      [] strat = "SetupCfgMerge" -> SetupCfgMerge_apply(cfg, target, template, order)

\* the walks of a set that apply() can take (one walk where no set is walked)
apply_orders(strat, cfg, target, template) ==
    IF strat = "SetupCfgMerge" THEN SetupCfgMerge_key_orders(cfg, target, template)
    ELSE {<<>>}

(***************************************************************************)
(* Raw configuration values, as yaml.safe_load gives them.  A raw value is *)
(* [kind, v]: a str (v its code points), an int (v = <<n>>), null          *)
(* (v = <<>>), a list (v the sequence of its items) or a map (v the        *)
(* sequence of its <<key, raw value>> pairs, in the order of the file).    *)
(***************************************************************************)
Str(s) == [kind |-> "str", v |-> s]

Int_(n) == [kind |-> "int", v |-> <<n>>]

Null == [kind |-> "null", v |-> <<>>]

List(items) == [kind |-> "list", v |-> items]

Map(pairs) == [kind |-> "map", v |-> pairs]

\* Python: mapping.get(key): <<>> when the key is missing, else <<value>>
raw_get(pairs, key) ==
    IF \A i \in 1..Len(pairs) : pairs[i][1] # key THEN <<>>
    ELSE <<pairs[MinOf({i \in 1..Len(pairs) : pairs[i][1] = key})][2]>>

(***************************************************************************)
(* re.compile, for patterns written as "^"? " *"? body "$"? where body is  *)
(* a literal or "(lit1|lit2|...)"                                          *)
(***************************************************************************)
\* Python: s.split(sep) for a separator of one character
RECURSIVE split_at(_, _)
split_at(s, sep) ==
    IF first_in(s, 1, {sep}) = 0 THEN <<s>>
    ELSE <<SubSeq(s, 1, first_in(s, 1, {sep}) - 1)>>
         \o split_at(SubSeq(s, first_in(s, 1, {sep}) + 1, Len(s)), sep)

\* sre_parse raises re.error: a parenthesis without its partner, a character set
\* that is not terminated, or a quantifier with nothing to repeat
re_error(value) ==
    \/ Cardinality({i \in 1..Len(value) : value[i] = 40})
       # Cardinality({i \in 1..Len(value) : value[i] = 41})
    \/ /\ first_in(value, 1, {91}) # 0
       /\ first_in(value, first_in(value, 1, {91}) + 1, {93}) = 0
    \/ value # <<>> /\ value[1] \in {42, 43, 63}

\* the pattern without "^" at its start
after_caret(value) ==
    IF value # <<>> /\ value[1] = 94 THEN Tail(value) ELSE value

\* the pattern without "$" at its end
before_dollar(value) ==
    IF value # <<>> /\ value[Len(value)] = 36 THEN SubSeq(value, 1, Len(value) - 1)
    ELSE value

\* the alternatives of a body
alternatives(body) ==
    IF body # <<>> /\ body[1] = 40 /\ body[Len(body)] = 41
    THEN Range(split_at(SubSeq(body, 2, Len(body) - 1), 124))
    ELSE Range(split_at(body, 124))

\* the compiled pattern of a string that sre_parse accepts
compiled(value, rest) ==
    [spaces |-> StartsWith(rest, <<SP, 42>>),
     alts |-> alternatives(before_dollar(IF StartsWith(rest, <<SP, 42>>)
                                         THEN SubSeq(rest, 3, Len(rest)) ELSE rest)),
     eol |-> value # <<>> /\ value[Len(value)] = 36]

\* re.compile(value): [error, out]
re_compile(value) ==
    IF re_error(value) THEN [error |-> "re.error"]
    ELSE [error |-> "no", out |-> compiled(value, after_caret(value))]

(***************************************************************************)
(* The marshmallow schemas of the strategies.  A loaded value is           *)
(* [error, out]; error is "no" or the name of the exception.               *)
(***************************************************************************)
\* NoExtraKeysSchema.check_unknown_fields: the input has a key that is no field
check_unknown_fields(data, fields) ==
    \E i \in 1..Len(data) : data[i][1] \notin fields

\* scaraplate.fields.Pattern._deserialize of a value that is not None: re.compile
\* raises TypeError for a value that is no string, which is not caught
Pattern_deserialize(value) ==
    IF value.kind # "str" THEN [error |-> "TypeError"]
    ELSE IF re_compile(value.v).error # "no" THEN [error |-> "ValidationError"]
    ELSE re_compile(value.v)

\* Pattern(required=True): the key must be there and must not be null
required_pattern(value) ==
    IF value = <<>> \/ value[1].kind = "null" THEN [error |-> "ValidationError"]
    ELSE Pattern_deserialize(value[1])

\* Pattern(missing=default): out is <<>> (None) or <<pattern>>
optional_pattern(value) ==
    IF value = <<>> \/ value[1].kind = "null" THEN [error |-> "no", out |-> <<>>]
    ELSE IF Pattern_deserialize(value[1]).error # "no" THEN Pattern_deserialize(value[1])
    ELSE [error |-> "no", out |-> <<Pattern_deserialize(value[1]).out>>]

\* a faulty Schema.load: the unknown fields of the input are not looked at
load_error_known_only(unknown, errors) ==
    IF "TypeError" \in errors THEN "TypeError"
    ELSE IF "ValidationError" \in errors THEN "ValidationError"
    ELSE "no"

\* Schema.load: the errors of the fields and of check_unknown_fields are collected
\* and raised as one ValidationError; any other exception of a field is not caught
load_error(unknown, errors) ==
    IF "TypeError" \in errors THEN "TypeError"
    ELSE IF unknown \/ "ValidationError" \in errors THEN "ValidationError"
    ELSE "no"

\* ConfigKeySchema().load(item)
ConfigKeySchema_load(unknown, sections, keys) ==
    IF load_error(unknown, {sections.error, keys.error}) # "no"
    THEN [error |-> load_error(unknown, {sections.error, keys.error})]
    ELSE [error |-> "no", out |-> [sections |-> sections.out, keys |-> keys.out]]

ConfigKeySchema(item) ==
    IF item.kind # "map" THEN [error |-> "ValidationError"]
    ELSE ConfigKeySchema_load(
             check_unknown_fields(item.v, {b("sections"), b("keys")}),
             required_pattern(raw_get(item.v, b("sections"))),
             required_pattern(raw_get(item.v, b("keys"))))

\* ConfigSectionSchema().load(item)
ConfigSectionSchema_load(unknown, sections, excluded_keys) ==
    IF load_error(unknown, {sections.error, excluded_keys.error}) # "no"
    THEN [error |-> load_error(unknown, {sections.error, excluded_keys.error})]
    ELSE [error |-> "no",
          out |-> [sections |-> sections.out, excluded_keys |-> excluded_keys.out]]

ConfigSectionSchema(item) ==
    IF item.kind # "map" THEN [error |-> "ValidationError"]
    ELSE ConfigSectionSchema_load(
             check_unknown_fields(item.v, {b("sections"), b("excluded_keys")}),
             required_pattern(raw_get(item.v, b("sections"))),
             optional_pattern(raw_get(item.v, b("excluded_keys"))))

\* the items of a list, loaded
loaded_items(loaded) ==
    IF load_error(FALSE, {loaded[i].error : i \in 1..Len(loaded)}) # "no"
    THEN [error |-> load_error(FALSE, {loaded[i].error : i \in 1..Len(loaded)})]
    ELSE [error |-> "no", out |-> [i \in 1..Len(loaded) |-> loaded[i].out]]

\* fields.Nested(schema, many=True, required=True): the key must be there and
\* must hold a list, every item of which the schema loads
Nested(value, schema(_)) ==
    IF value = <<>> THEN [error |-> "ValidationError"]
    ELSE IF value[1].kind # "list" THEN [error |-> "ValidationError"]
    ELSE loaded_items([i \in 1..Len(value[1].v) |-> schema(value[1].v[i])])

\* fields.String(missing=default)
String(value, default) ==
    IF value = <<>> THEN [error |-> "no", out |-> default]
    ELSE IF value[1].kind # "str" THEN [error |-> "ValidationError"]
    ELSE [error |-> "no", out |-> value[1].v]

\* Python: int(s) of a string of digits
RECURSIVE int_of(_, _)
int_of(digits, n) ==
    IF digits = <<>> THEN n ELSE int_of(Tail(digits), 10 * n + (digits[1] - 48))

\* fields.Int(): the number of an int or of a string of digits
Int_deserialize(value) ==
    IF value.kind = "int" THEN [error |-> "no", out |-> value.v[1]]
    ELSE IF value.kind = "str" /\ value.v # <<>>
            /\ \A i \in 1..Len(value.v) : value.v[i] \in 48..57
    THEN [error |-> "no", out |-> int_of(value.v, 0)]
    ELSE [error |-> "ValidationError"]

\* validate=Range(min=min) of a number that was read: out is <<n>>
Range_min(number, min) ==
    IF number.error # "no" THEN number
    ELSE IF number.out < min THEN [error |-> "ValidationError"]
    ELSE [error |-> "no", out |-> <<number.out>>]

\* fields.Int(missing=None, validate=Range(min=min)): out is <<>> (None) or <<n>>
Int_min(value, min) ==
    IF value = <<>> \/ value[1].kind = "null" THEN [error |-> "no", out |-> <<>>]
    ELSE Range_min(Int_deserialize(value[1]), min)

\* Strategy.Schema: a schema without fields
Strategy_Schema(data) ==
    IF load_error(check_unknown_fields(data, {}), {}) # "no"
    THEN [error |-> load_error(check_unknown_fields(data, {}), {})]
    ELSE [error |-> "no", out |-> <<>>]

\* SortedUniqueLines.Schema
SortedUniqueLines_load(unknown, comment_pattern) ==
    IF load_error(unknown, {comment_pattern.error}) # "no"
    THEN [error |-> load_error(unknown, {comment_pattern.error})]
    ELSE [error |-> "no",
          out |-> [comment_pattern |-> IF comment_pattern.out = <<>>
                                       THEN DefaultCommentPattern
                                       ELSE comment_pattern.out[1]]]

SortedUniqueLines_Schema(data) ==
    SortedUniqueLines_load(check_unknown_fields(data, {b("comment_pattern")}),
                           optional_pattern(raw_get(data, b("comment_pattern"))))

\* TemplateHash.Schema
TemplateHash_load(unknown, line_comment_start, max_line_length, max_line_linter_ignore_mark) ==
    IF load_error(unknown, {line_comment_start.error, max_line_length.error,
                            max_line_linter_ignore_mark.error}) # "no"
    THEN [error |-> load_error(unknown, {line_comment_start.error, max_line_length.error,
                                         max_line_linter_ignore_mark.error})]
    ELSE [error |-> "no",
          out |-> [line_comment_start |-> line_comment_start.out,
                   max_line_length |-> max_line_length.out,
                   max_line_linter_ignore_mark |-> max_line_linter_ignore_mark.out]]

TemplateHash_Schema(data) ==
    TemplateHash_load(
        check_unknown_fields(data, {b("line_comment_start"), b("max_line_length"),
                                    b("max_line_linter_ignore_mark")}),
        String(raw_get(data, b("line_comment_start")), b("#")),
        Int_min(raw_get(data, b("max_line_length")), 10),
        String(raw_get(data, b("max_line_linter_ignore_mark")), b("  # noqa")))

\* ConfigParserMerge.Schema
ConfigParserMerge_load(unknown, preserve_keys, preserve_sections) ==
    IF load_error(unknown, {preserve_keys.error, preserve_sections.error}) # "no"
    THEN [error |-> load_error(unknown, {preserve_keys.error, preserve_sections.error})]
    ELSE [error |-> "no",
          out |-> [preserve_sections |-> preserve_sections.out,
                   preserve_keys |-> preserve_keys.out]]

ConfigParserMerge_Schema(data) ==
    ConfigParserMerge_load(
        check_unknown_fields(data, {b("preserve_keys"), b("preserve_sections")}),
        Nested(raw_get(data, b("preserve_keys")), ConfigKeySchema),
        Nested(raw_get(data, b("preserve_sections")), ConfigSectionSchema))

\* SetupCfgMerge.Schema
SetupCfgMerge_load(unknown, preserve_keys, preserve_sections, merge_requirements) ==
    IF load_error(unknown, {preserve_keys.error, preserve_sections.error,
                            merge_requirements.error}) # "no"
    THEN [error |-> load_error(unknown, {preserve_keys.error, preserve_sections.error,
                                         merge_requirements.error})]
    ELSE [error |-> "no",
          out |-> [preserve_sections |-> preserve_sections.out,
                   preserve_keys |-> preserve_keys.out,
                   merge_requirements |-> merge_requirements.out]]

SetupCfgMerge_Schema(data) ==
    SetupCfgMerge_load(
        check_unknown_fields(data, {b("preserve_keys"), b("preserve_sections"),
                                    b("merge_requirements")}),
        Nested(raw_get(data, b("preserve_keys")), ConfigKeySchema),
        Nested(raw_get(data, b("preserve_sections")), ConfigSectionSchema),
        Nested(raw_get(data, b("merge_requirements")), ConfigKeySchema))

\* marshmallow_load_data(self.Schema, config) of Strategy.__init__: [error, out]
marshmallow_load_data(strat, data) ==
    CASE strat \in {"Overwrite", "IfMissing"} -> Strategy_Schema(data)
      [] strat = "SortedUniqueLines" -> SortedUniqueLines_Schema(data)
      [] strat \in {"TemplateHash", "RenderedTemplateFileHash"} -> TemplateHash_Schema(data)
      [] strat = "ConfigParserMerge" -> ConfigParserMerge_Schema(data)
      [] strat = "SetupCfgMerge" -> SetupCfgMerge_Schema(data)

(***************************************************************************)
(* scaraplate.yaml: strategy references (scaraplate.config).  A loaded     *)
(* StrategyNode is [strategy, config]: the name of the class and the raw   *)
(* config mapping, which is validated when the strategy is constructed.    *)
(***************************************************************************)
\* Python: ref.rsplit(".", 1) of a ref with a "."
rsplit_dot(ref) ==
    <<SubSeq(ref, 1, last_in(ref, {46}) - 1), SubSeq(ref, last_in(ref, {46}) + 1, Len(ref))>>

\* the modules importlib.import_module finds
Modules == {b("scaraplate.strategies"), b("tempfile")}

\* the classes of scaraplate.strategies that can be constructed as a strategy
StrategyClass(cls_s) == CHOOSE s \in Strategies : b(s) = cls_s

\* getattr(module, cls_s): "Strategy" for the abstract base, the name of a strategy
\* class, "other" for another class, "AttributeError" when there is no such attribute
getattr(module_s, cls_s) ==
    IF module_s = b("scaraplate.strategies") /\ cls_s = b("Strategy") THEN "Strategy"
    ELSE IF module_s = b("scaraplate.strategies") /\ \E s \in Strategies : b(s) = cls_s
    THEN StrategyClass(cls_s)
    ELSE IF <<module_s, cls_s>> \in {<<b("scaraplate.strategies"), b("ConfigKeySchema")>>,
                                     <<b("tempfile"), b("TemporaryDirectory")>>}
    THEN "other"
    ELSE "AttributeError"

\* the class of an imported module, checked with ensure_subclass=Strategy
ensure_subclass(cls) ==
    IF cls = "AttributeError" THEN [error |-> "AttributeError"]
    ELSE IF cls \notin Strategies THEN [error |-> "ValueError"]
    ELSE [error |-> "no", out |-> cls]

\* class_from_str(ref, ensure_subclass=Strategy) of a string
class_from_str(ref) ==
    IF 46 \notin Range(ref) THEN [error |-> "ValueError"]
    ELSE IF rsplit_dot(ref)[1] \notin Modules THEN [error |-> "ModuleNotFoundError"]
    ELSE ensure_subclass(getattr(rsplit_dot(ref)[1], rsplit_dot(ref)[2]))

\* StrategyNode(strategy=cls, config=config)
StrategyNode(cls, raw_config) ==
    IF cls.error # "no" THEN [error |-> cls.error]
    ELSE [error |-> "no", out |-> [strategy |-> cls.out, config |-> raw_config]]

\* _parse_strategy_node of a mapping, from raw.get("strategy") and raw.get("config")
parse_mapping_node(strategy_, config_) ==
    IF strategy_ = <<>> THEN [error |-> "ValueError"]
    ELSE IF strategy_[1].kind # "str" THEN [error |-> "ValueError"]
    ELSE IF config_ = <<>> THEN StrategyNode(class_from_str(strategy_[1].v), <<>>)
    ELSE IF config_[1].kind # "map" THEN [error |-> "ValueError"]
    ELSE StrategyNode(class_from_str(strategy_[1].v), config_[1].v)

\* _parse_strategy_node(path, raw): [error, out]
_parse_strategy_node(raw) ==
    IF raw.kind = "str" THEN StrategyNode(class_from_str(raw.v), <<>>)
    ELSE IF raw.kind = "map"
    THEN parse_mapping_node(raw_get(raw.v, b("strategy")), raw_get(raw.v, b("config")))
    ELSE [error |-> "ValueError"]

\* the nodes of the entries of strategies_mapping, in the order of the file
parsed_mapping(entries) ==
    [i \in 1..Len(entries) |-> _parse_strategy_node(entries[i][2])]

\* ScaraplateYamlStrategies(default_strategy, strategies_mapping) of parsed nodes
ScaraplateYamlStrategies(entries, default_strategy, nodes) ==
    IF first_error(<<default_strategy.error>> \o [i \in 1..Len(nodes) |-> nodes[i].error])
       # "no"
    THEN [error |-> first_error(<<default_strategy.error>>
                                \o [i \in 1..Len(nodes) |-> nodes[i].error])]
    ELSE [error |-> "no",
          out |-> [default_strategy |-> default_strategy.out,
                   strategies_mapping |->
                       [i \in 1..Len(nodes) |-> <<entries[i][1], nodes[i].out>>]]]

\* get_scaraplate_yaml_strategies(template_path, cookiecutter_context_dict) for a
\* scaraplate.yaml whose keys hold no cookiecutter variable: every node is parsed
\* by _parse_strategy_node, the default strategy first
get_scaraplate_yaml_strategies(yaml) ==
    ScaraplateYamlStrategies(yaml.strategies_mapping,
                             _parse_strategy_node(yaml.default_strategy),
                             parsed_mapping(yaml.strategies_mapping))

(***************************************************************************)
(* The cookiecutter context of a project (scaraplate.cookiecutter)         *)
(***************************************************************************)
\* ".scaraplate.conf"
ScaraplateConfPath == b(".scaraplate.conf")

\* "cookiecutter_context", ScaraplateConf.section_name
ContextSection == b("cookiecutter_context")

\* the options parser[section] shows: those of the section, then the defaults it lacks
RECURSIVE with_defaults(_, _)
with_defaults(opts, defaults) ==
    IF defaults = <<>> THEN opts
    ELSE IF option_index(opts, defaults[1][1]) # 0 THEN with_defaults(opts, Tail(defaults))
    ELSE with_defaults(Append(opts, defaults[1]), Tail(defaults))

\* dict(context_configparser or {}) of a parser that was read
context_of(parser) ==
    IF parser.error # "no" THEN [error |-> parser.error]
    ELSE IF ~has_section(parser, ContextSection) THEN [error |-> "no", opts |-> <<>>]
    ELSE section_items(with_defaults(section_opts(parser, ContextSection),
                                     parser.defaults))

\* ScaraplateConf(path).read(): [error, opts]; contents is None when there is no file
ScaraplateConf_read(contents) ==
    IF contents = None THEN [error |-> "FileNotFoundError"]
    ELSE context_of(read_string(keepends_lines(contents, 1, <<>>), DEFAULTSECT))

\* get_target_project_cookiecutter_context: no file is an empty context
get_target_project_cookiecutter_context(context) ==
    IF context.error = "FileNotFoundError" THEN [error |-> "no", opts |-> <<>>]
    ELSE context

\* a faulty get_cookiecutter_context_from_temp_project: an empty context is accepted
get_cookiecutter_context_allowing_empty(context) ==
    IF context.error = "FileNotFoundError"
    THEN [error |-> "InvalidScaraplateTemplateError"]
    ELSE context

\* get_cookiecutter_context_from_temp_project: no file and an empty context are errors
get_cookiecutter_context_from_temp_project(context) ==
    IF context.error = "FileNotFoundError" \/ (context.error = "no" /\ context.opts = <<>>)
    THEN [error |-> "InvalidScaraplateTemplateError"]
    ELSE context

(***************************************************************************)
(* rollup() over a project: scaraplate.rollup.  A tree is a function from  *)
(* the relative paths of its files to [contents, mode]; in the tree of the *)
(* target project a file that does not exist has the contents None.        *)
(***************************************************************************)
MaxRuns == 2

\* a file that does not exist
NoSuchFile == [contents |-> None, mode |-> 0]

\* target_file_path.read_bytes() if the file exists, else None
read_target(tree, p) == IF p \in DOMAIN tree THEN tree[p].contents ELSE None

\* a faulty write: the permission bits are copied only when the bytes change
write_changed_file(tree, p, contents, st_mode) ==
    [tree EXCEPT ![p] = [contents |-> contents,
                         mode |-> IF tree[p].contents = contents THEN tree[p].mode
                                  ELSE st_mode % 512]]

\* target_file_path.write_bytes(contents); target_file_path.chmod(st_mode & 0o777)
write_file(tree, p, contents, st_mode) ==
    [tree EXCEPT ![p] = [contents |-> contents, mode |-> st_mode % 512]]

\* the orders in which os.walk can list the files of a tree
walks(tree) ==
    {w \in [1..Cardinality(DOMAIN tree) -> DOMAIN tree] :
        \A i, j \in 1..Len(w) : w[i] = w[j] => i = j}

\* the first exception of rollup() before apply_generated_project, "no" if none:
\* the context of the target is read, the template is rendered, the context of
\* the rendered project is read and the strategies of scaraplate.yaml are loaded
rollup_error(target_context, rendered_context, loaded) ==
    first_error(<<target_context.error, rendered_context.error, loaded.error>>)

\* the file is not reached: nothing has been constructed
NoStep == [path |-> <<>>, strategy |-> "none", config |-> <<>>, init |-> "none",
           applied |-> FALSE, error |-> "none"]

\* rollup() up to the call of apply_generated_project
start_rollup(error, loaded) ==
    /\ raised' = error
    /\ pc' = IF error = "no" THEN "applying" ELSE "raised"
    /\ scaraplate_yaml_strategies' = IF error = "no" THEN loaded.out ELSE <<>>
    /\ todo' \in IF error = "no" THEN walks(generated) ELSE {<<>>}

StartRollup ==
    /\ pc = "ready"
    /\ runs < MaxRuns
    /\ runs' = runs + 1
    /\ before' = project
    /\ written' = {}
    /\ step' = NoStep
    /\ start_rollup(
           rollup_error(
               get_target_project_cookiecutter_context(
                   ScaraplateConf_read(read_target(project, ScaraplateConfPath))),
               get_cookiecutter_context_from_temp_project(
                   ScaraplateConf_read(read_target(generated, ScaraplateConfPath))),
               get_scaraplate_yaml_strategies(scaraplate_yaml)),
           get_scaraplate_yaml_strategies(scaraplate_yaml))
    /\ UNCHANGED <<scaraplate_yaml, generated, project, original, repaired, vcs_vars,
                   file_vars, dispatch_vars,
                   newline_vars,
                   git_vars>>

\* what became of the file: the class and the raw config of its StrategyNode, the
\* exception of the constructor ("no": none), whether apply() was called and its
\* exception ("none" when it was not called)
Step(p, strategy_node, init, applied, error) ==
    [path |-> p, strategy |-> strategy_node.strategy, config |-> strategy_node.config,
     init |-> init, applied |-> applied, error |-> error]

\* strategy.apply() gave r: its output is written and the permission bits of the
\* template file are copied; an exception ends the rollup
apply_file(p, strategy_node, r) ==
    /\ step' = Step(p, strategy_node, "no", TRUE, r.error)
    /\ raised' = r.error
    /\ pc' = IF r.error # "no" THEN "raised"
             ELSE IF Len(todo) = 1 THEN "done" ELSE "applying"
    /\ todo' = IF r.error = "no" THEN Tail(todo) ELSE todo
    /\ project' = IF r.error = "no"
                  THEN write_file(project, p, r.out, generated[p].mode)
                  ELSE project
    /\ written' = IF r.error = "no" THEN written \cup {p} ELSE written

\* strategy_node.strategy(target_contents=..., config=strategy_node.config): the
\* constructor validates the config; an exception ends the rollup
construct(p, strategy_node, loaded) ==
    IF loaded.error # "no"
    THEN /\ step' = Step(p, strategy_node, loaded.error, FALSE, "none")
         /\ raised' = loaded.error
         /\ pc' = "raised"
         /\ UNCHANGED <<todo, project, written>>
    ELSE \E order \in apply_orders(strategy_node.strategy, loaded.out,
                                   read_target(project, p), generated[p].contents) :
             apply_file(p, strategy_node,
                        apply(strategy_node.strategy, loaded.out, template_meta,
                              read_target(project, p), generated[p].contents, order))

\* get_strategy(scaraplate_yaml_strategies, path) of the running rollup
strategy_node_of(p) ==
    get_strategy(scaraplate_yaml_strategies.strategies_mapping,
                 scaraplate_yaml_strategies.default_strategy, p)

\* apply_generated_project, for the next file of the walk
ApplyFile ==
    /\ pc = "applying"
    /\ construct(Head(todo), strategy_node_of(Head(todo)),
                 marshmallow_load_data(strategy_node_of(Head(todo)).strategy,
                                       strategy_node_of(Head(todo)).config))
    /\ UNCHANGED <<scaraplate_yaml, generated, scaraplate_yaml_strategies, before, runs,
                   original, repaired, vcs_vars, file_vars, dispatch_vars,
                   newline_vars,
                   git_vars>>

\* the target file apply() could not read is repaired by hand after the failure
TargetRepaired(contents) ==
    /\ pc = "raised"
    /\ step.applied
    /\ step.path \notin repaired
    /\ project[step.path].contents # None
    /\ parse_config(project[step.path].contents).error # "no"
    /\ project' = [project EXCEPT ![step.path].contents = contents]
    /\ repaired' = repaired \cup {step.path}
    /\ pc' = "ready"
    /\ UNCHANGED <<scaraplate_yaml, generated, raised, todo, scaraplate_yaml_strategies, before,
                   step,
                   written, runs, original, vcs_vars, file_vars, dispatch_vars,
                   newline_vars,
                   git_vars>>

(***************************************************************************)
(* automatic_rollup (scaraplate.automation.base) with a project that is    *)
(* cloned from git (scaraplate.automation.git.GitCloneProjectVCS)          *)
(***************************************************************************)
\* a faulty ProjectVCS.is_dirty: a working tree is always reported as changed
is_dirty_always(tree, committed) == TRUE

\* GitCloneProjectVCS.is_dirty: `git status --porcelain` prints a path, which it
\* does for a file whose bytes or executable bit differ from the commit
is_dirty(tree, committed) ==
    \E p \in DOMAIN tree :
        \/ tree[p].contents # committed[p].contents
        \/ (tree[p].mode \div 64) % 2 # (committed[p].mode \div 64) % 2

\* project_vcs_ctx is entered: the default branch of the project is cloned
Clone ==
    /\ auto_pc \in {"idle", "finished"}
    /\ pc # "applying"
    /\ runs < MaxRuns
    /\ auto_pc' = "rolling"
    /\ project' = head
    /\ commit_calls' = 0
    /\ pc' = "ready"
    /\ UNCHANGED <<scaraplate_yaml, generated, raised, todo, scaraplate_yaml_strategies, before,
                   step,
                   written, runs, original, repaired, head, branch,
                   file_vars, dispatch_vars,
                   newline_vars,
                   git_vars>>

\* automatic_rollup once rollup() has returned or raised: an exception leaves
\* the function; a clean project returns; a dirty one is committed to a branch
AutomaticRollupEnds ==
    /\ auto_pc = "rolling"
    /\ pc \in {"done", "raised"}
    /\ auto_pc' = "finished"
    /\ IF pc = "done" /\ is_dirty(project, head)
       THEN commit_calls' = commit_calls + 1 /\ branch' = project
       ELSE UNCHANGED <<commit_calls, branch>>
    /\ UNCHANGED <<project_vars, head, file_vars, dispatch_vars,
                   newline_vars,
                   git_vars>>

\* the branch with the update is merged into the default branch of the project
MergeRequestMerged ==
    /\ auto_pc = "finished"
    /\ branch # head
    /\ head' = branch
    /\ auto_pc' = "idle"
    /\ UNCHANGED <<project_vars, branch, commit_calls, file_vars, dispatch_vars,
                   newline_vars,
                   git_vars>>

\* no project is rolled up
NoProject ==
    /\ scaraplate_yaml = <<>>
    /\ generated = <<>>
    /\ project = <<>>
    /\ pc = "idle"
    /\ raised = "no"
    /\ todo = <<>>
    /\ scaraplate_yaml_strategies = <<>>
    /\ before = <<>>
    /\ step = NoStep
    /\ written = {}
    /\ runs = 0
    /\ original = <<>>
    /\ repaired = {}

\* no project is cloned
NoVcs ==
    /\ head = <<>>
    /\ branch = <<>>
    /\ commit_calls = 0
    /\ auto_pc = "idle"

(***************************************************************************)
(* The life of one file of the target project                              *)
(***************************************************************************)
\* the rollups, template commits and manual edits a behaviour goes through
MaxRollups == 3
NumCommits == 2
MaxEdits == 1

\* the n-th commit of the template repository
Commit(n) == CommitHash(48 + n)

commit_number(meta) == meta.commit_hash[1] - 48

\* no strategy has been invoked yet
NoInvocation ==
    [target |-> None, template |-> <<>>, meta |-> TemplateMeta(Commit(1), FALSE),
     error |-> "none", out |-> <<>>]

\* target_file_path.write_bytes and chmod once apply() has returned r; an exception
\* ends the rollup before the write
write_result(r) ==
    /\ last' = [target |-> target_contents,
                template |-> template_contents,
                meta |-> template_meta,
                error |-> r.error,
                out |-> IF r.error = "no" THEN r.out ELSE <<>>]
    /\ target_contents' = IF r.error = "no" THEN r.out ELSE target_contents
    /\ target_mode' = IF r.error = "no" THEN template_mode % 512 ELSE target_mode

\* apply_generated_project, for the file: the strategy is constructed over the bytes
\* of both files, apply() runs, its output is written to the target and the
\* permission bits of the template file are copied
Rollup ==
    /\ rollups < MaxRollups
    /\ \E order \in apply_orders(strategy, config, target_contents, template_contents) :
           write_result(apply(strategy, config, template_meta, target_contents,
                              template_contents, order))
    /\ previous' = last
    /\ rollups' = rollups + 1
    /\ UNCHANGED <<strategy, config, template_contents, template_mode, template_meta,
                   edits, dispatch_vars, project_vars, vcs_vars,
                   newline_vars,
                   git_vars>>

\* get_template_meta_from_git after a new commit of the template repository:
\* a new HEAD, a clean working tree
TemplateCommit ==
    /\ commit_number(template_meta) < NumCommits
    /\ template_meta' = TemplateMeta(Commit(commit_number(template_meta) + 1), FALSE)
    /\ UNCHANGED <<strategy, config, template_contents, template_mode, target_contents,
                   target_mode, last, previous, rollups, edits, dispatch_vars,
                   project_vars, vcs_vars,
                   newline_vars,
                   git_vars>>

\* get_template_meta_from_git after an edit of the template's working tree: the
\* repository is dirty, the rendered file is one of the given contents
TemplateEdited(contents) ==
    /\ ~template_meta.is_git_dirty
    /\ template_contents' \in contents
    /\ template_meta' = TemplateMeta(template_meta.commit_hash, TRUE)
    /\ UNCHANGED <<strategy, config, template_mode, target_contents, target_mode,
                   last, previous, rollups, edits, dispatch_vars, project_vars, vcs_vars,
                   newline_vars,
                   git_vars>>

\* "edit"
EditLine == <<101, 100, 105, 116>>

\* a manual edit of the target file between two rollups: a line is appended,
\* ended as the file ends its lines
TargetEdited ==
    /\ edits < MaxEdits
    /\ target_contents # None
    /\ target_contents' = target_contents \o EditLine
                          \o detect_newline(<<target_contents>>, <<LF>>)
    /\ edits' = edits + 1
    /\ UNCHANGED <<strategy, config, template_contents, template_mode, template_meta,
                   target_mode, last, previous, rollups, dispatch_vars, project_vars, vcs_vars,
                   newline_vars,
                   git_vars>>

\* get_strategy for one path of the rendered template
GetStrategy(p, default_strategy) ==
    /\ path' = p
    /\ node' = get_strategy(strategies_mapping, default_strategy, p)
    /\ UNCHANGED <<file_vars, strategies_mapping, project_vars, vcs_vars,
                   newline_vars,
                   git_vars>>

(***************************************************************************)
(* The files and configs the behaviours start from                         *)
(***************************************************************************)
\* the compiled pattern "^(lit1|lit2|...)", ended by "$" when eol
Pattern(lits, eol) == [spaces |-> FALSE, alts |-> lits, eol |-> eol]

\* st_mode of a regular file: 0o100644 and 0o100755
FileModes == {33188, 33261}

HashStrategies == {"TemplateHash", "RenderedTemplateFileHash"}

\* TemplateHash.Schema: the defaults, and "//" comments with a max_line_length
\* that the commit line reaches and the other comment lines do not
HashConfigs ==
    {[line_comment_start |-> b("#"), max_line_length |-> <<>>,
      max_line_linter_ignore_mark |-> b("  # noqa")],
     [line_comment_start |-> b("//"), max_line_length |-> <<75>>,
      max_line_linter_ignore_mark |-> b("  # noqa")]}

\* the validated configs of the StrategyNode of each strategy class
Configs(s) ==
    CASE s \in {"Overwrite", "IfMissing"} -> {<<>>}
      [] s = "SortedUniqueLines" -> {[comment_pattern |-> DefaultCommentPattern]}
      [] s \in HashStrategies -> HashConfigs
      [] s = "ConfigParserMerge" ->
             {[preserve_sections |->
                   <<[sections |-> Pattern({b("tox")}, TRUE), excluded_keys |-> <<>>]>>,
               preserve_keys |->
                   <<[sections |-> Pattern({b("metadata")}, TRUE),
                      keys |-> Pattern({b("version")}, TRUE)]>>]}
      [] s = "SetupCfgMerge" ->
             {[preserve_sections |-> <<>>,
               preserve_keys |-> <<>>,
               merge_requirements |->
                   <<[sections |-> Pattern({b("options")}, TRUE),
                      keys |-> Pattern({b("install_requires")}, TRUE)]>>]}

\* the contents the rendered template file can have
Templates(s) ==
    CASE s \in {"Overwrite", "IfMissing"} -> {b(""), b("a\n"), b("b\r\n")}
      [] s = "SortedUniqueLines" -> {b("# h\nzebra\nApple\n"), b("a\n")}
      [] s \in HashStrategies -> {b("a\n"), b("b\r\nc\n")}
      [] s = "ConfigParserMerge" ->
             {b("[metadata]\nversion = 1\n"), b("[tox]\nenvlist = py39\n")}
      [] s = "SetupCfgMerge" ->
             {b("[options]\ninstall_requires =\n    foo\n"),
              b("[options]\ninstall_requires = Bar\n")}

\* the contents the target file can have before the first rollup
Targets(s) ==
    CASE s \in {"Overwrite", "IfMissing"} -> {None, b(""), b("a\n"), b("x\n")}
      [] s = "SortedUniqueLines" -> {None, b("# ignored\napple\n"), b("b\n# c\n")}
      [] s \in HashStrategies -> {None, b(""), b("x\n"), b("y\r\n")}
      [] s = "ConfigParserMerge" ->
             {None, b("[metadata]\nversion = 2\n[tox]\nenvlist = py38\n")}
      [] s = "SetupCfgMerge" ->
             {None, b("[options]\ninstall_requires =\n    bar\n")}

\* no mapping is consulted while the life of one file is followed
NoDispatch ==
    /\ strategies_mapping = <<>>
    /\ path = <<>>
    /\ node = "none"

\* a file of the rendered template at the first commit, its StrategyNode, and the
\* target project before the first rollup
InitFile(strategies) ==
    /\ strategy \in strategies
    /\ config \in Configs(strategy)
    /\ template_contents \in Templates(strategy)
    /\ template_mode \in FileModes
    /\ template_meta = TemplateMeta(Commit(1), FALSE)
    /\ target_contents \in Targets(strategy)
    /\ target_mode = IF target_contents = None THEN 0 ELSE 420
    /\ last = NoInvocation
    /\ previous = NoInvocation
    /\ rollups = 0
    /\ edits = 0
    /\ NoDispatch
    /\ NoProject
    /\ NoVcs
    /\ NoGit
    /\ NoNewline

Init == InitFile(Strategies)

Next ==
    \/ Rollup
    \/ TemplateCommit
    \/ TemplateEdited(Templates(strategy))
    \/ TargetEdited

Spec == Init /\ [][Next]_vars

\* the life of a file governed by TemplateHash or RenderedTemplateFileHash
InitHash == InitFile(HashStrategies)

SpecHash == InitHash /\ [][Next]_vars

(***************************************************************************)
(* Strategy resolution for the paths of the rendered template              *)
(***************************************************************************)
MaxMappingLen == 2

\* the keys scaraplate.yaml can give strategies_mapping
GlobPatterns == {b("*.txt"), b("?.py"), b("[a-c].py"), b("[!a]*.cfg"), b("d/*")}

\* str(path) of the files of the rendered template
Paths == {b("a.txt"), b("b.py"), b("x.py"), b("d/a.txt"), b("setup.cfg"), b("a.cfg")}

\* the StrategyNode scaraplate.yaml gives each key: every key has a node of its own
NodeOf(glob_pattern) ==
    CASE glob_pattern = b("*.txt") -> "IfMissing"
      [] glob_pattern = b("?.py") -> "TemplateHash"
      [] glob_pattern = b("[a-c].py") -> "RenderedTemplateFileHash"
      [] glob_pattern = b("[!a]*.cfg") -> "SetupCfgMerge"
      [] glob_pattern = b("d/*") -> "SortedUniqueLines"

\* ScaraplateYamlStrategies.default_strategy
DefaultStrategy == "Overwrite"

\* the mappings of at most MaxMappingLen keys, in every insertion order
Mappings ==
    {[i \in 1..Len(keys) |-> <<keys[i], NodeOf(keys[i])>>] :
        keys \in {k \in SeqsUpTo(GlobPatterns, MaxMappingLen) :
                     \A i, j \in 1..Len(k) : k[i] = k[j] => i = j}}

\* no file is rolled up while paths are resolved
NoFile ==
    /\ strategy = DefaultStrategy
    /\ config = <<>>
    /\ template_contents = <<>>
    /\ template_mode = 33188
    /\ template_meta = TemplateMeta(Commit(1), FALSE)
    /\ target_contents = None
    /\ target_mode = 0
    /\ last = NoInvocation
    /\ previous = NoInvocation
    /\ rollups = 0
    /\ edits = 0

InitDispatch ==
    /\ strategies_mapping \in Mappings
    /\ path = <<>>
    /\ node = "none"
    /\ NoFile
    /\ NoProject
    /\ NoVcs
    /\ NoGit
    /\ NoNewline

NextDispatch == \E p \in Paths : GetStrategy(p, DefaultStrategy)

SpecDispatch == InitDispatch /\ [][NextDispatch]_vars

(***************************************************************************)
(* SortedUniqueLines over files made of a few lines                        *)
(***************************************************************************)
MaxTemplateLines == 3
MaxTargetLines == 2

TemplateLinePool == {b("# h"), b("zebra"), b("Apple"), b("")}

TargetLinePool == {b("# ignored"), b("apple"), b("Banana"), b("")}

\* the newlines the lines of a target file end with
Newlines == {<<LF>>, <<CR, LF>>}

InitSortedUniqueLines ==
    /\ strategy = "SortedUniqueLines"
    /\ config \in Configs(strategy)
    /\ template_contents \in {JoinEach(lines, <<LF>>) :
                                 lines \in SeqsUpTo(TemplateLinePool, MaxTemplateLines)}
    /\ template_mode = 33188
    /\ template_meta = TemplateMeta(Commit(1), FALSE)
    /\ target_contents \in {None} \cup
                           {JoinEach(lines, newline) :
                               lines \in SeqsUpTo(TargetLinePool, MaxTargetLines),
                               newline \in Newlines}
    /\ target_mode = IF target_contents = None THEN 0 ELSE 420
    /\ last = NoInvocation
    /\ previous = NoInvocation
    /\ rollups = 0
    /\ edits = 0
    /\ NoDispatch
    /\ NoProject
    /\ NoVcs
    /\ NoGit
    /\ NoNewline

SpecSortedUniqueLines == InitSortedUniqueLines /\ [][Rollup]_vars

(***************************************************************************)
(* ConfigParserMerge with preserve_sections over files of a few sections   *)
(***************************************************************************)
MaxSections == 2

TemplateSections ==
    {b("[tox]\nenvlist = py39\n"), b("[tox]\ndeps = pytest\nenvlist = py39\n"),
     b("[metadata]\nname = t\n")}

TargetSections ==
    {b("[tox]\nenvlist = py38\n"), b("[tox]\ndeps = tox\nenvlist = py38\n"),
     b("[metadata]\nname = g\n")}

\* preserve_sections for the section tox, without and with excluded_keys
PreserveSectionsConfigs ==
    {[preserve_sections |->
          <<[sections |-> Pattern({b("tox")}, TRUE), excluded_keys |-> excluded_keys]>>,
      preserve_keys |-> <<>>] :
        excluded_keys \in {<<>>, <<Pattern({b("deps")}, TRUE)>>}}

InitConfigParserMerge ==
    /\ strategy = "ConfigParserMerge"
    /\ config \in PreserveSectionsConfigs
    /\ template_contents \in {Join(sections, <<>>) :
                                 sections \in SeqsUpTo(TemplateSections, MaxSections)}
    /\ template_mode = 33188
    /\ template_meta = TemplateMeta(Commit(1), FALSE)
    /\ target_contents \in {None} \cup
                           {Join(sections, <<>>) :
                               sections \in SeqsUpTo(TargetSections, MaxSections)}
    /\ target_mode = IF target_contents = None THEN 0 ELSE 420
    /\ last = NoInvocation
    /\ previous = NoInvocation
    /\ rollups = 0
    /\ edits = 0
    /\ NoDispatch
    /\ NoProject
    /\ NoVcs
    /\ NoGit
    /\ NoNewline

SpecConfigParserMerge == InitConfigParserMerge /\ [][Rollup]_vars

(***************************************************************************)
(* ConfigParserMerge with preserve_keys over files of a few sections       *)
(***************************************************************************)
TemplateKeySections ==
    {b("[metadata]\nname = t\nversion = 1\n"), b("[tox]\nenvlist = py39\n")}

\* the target sets the version, also to values that hold a percent sign
TargetKeySections ==
    {b("[metadata]\nversion = 2\nauthor = me\n"), b("[metadata]\nversion = 2%%\n"),
     b("[metadata]\nname = g\nversion = %(name)s\n"), b("[tox]\nenvlist = py38\n")}

\* preserve_keys for the key version of the section metadata
PreserveKeysConfigs ==
    {[preserve_sections |-> <<>>,
      preserve_keys |-> <<[sections |-> Pattern({b("metadata")}, TRUE),
                           keys |-> Pattern({b("version")}, TRUE)]>>]}

InitPreserveKeys ==
    /\ strategy = "ConfigParserMerge"
    /\ config \in PreserveKeysConfigs
    /\ template_contents \in {Join(sections, <<>>) :
                                 sections \in SeqsUpTo(TemplateKeySections, MaxSections)}
    /\ template_mode = 33188
    /\ template_meta = TemplateMeta(Commit(1), FALSE)
    /\ target_contents \in {None} \cup
                           {Join(sections, <<>>) :
                               sections \in SeqsUpTo(TargetKeySections, MaxSections)}
    /\ target_mode = IF target_contents = None THEN 0 ELSE 420
    /\ last = NoInvocation
    /\ previous = NoInvocation
    /\ rollups = 0
    /\ edits = 0
    /\ NoDispatch
    /\ NoProject
    /\ NoVcs
    /\ NoGit
    /\ NoNewline

SpecPreserveKeys == InitPreserveKeys /\ [][Rollup]_vars

(***************************************************************************)
(* ConfigParserMerge over sections that are out of order, among them one   *)
(* named DEFAULT                                                           *)
(***************************************************************************)
UnsortedTemplateSections ==
    {b("[b]\nz = 1\na = 2\n"), b("[A]\nk = x\ty \n"), b("[DEFAULT]\nb = 1\na = 2\n")}

UnsortedTargetSections ==
    {b("[b]\nz = 3\n"), b("[A]\nm = 1\nk = y\n"), b("[DEFAULT]\nc = 1\n")}

\* nothing is preserved, or the sections A and DEFAULT of the target are
PrettyOutputConfigs ==
    {[preserve_sections |-> preserve_sections, preserve_keys |-> <<>>] :
        preserve_sections \in
            {<<>>, <<[sections |-> Pattern({b("A"), b("DEFAULT")}, TRUE),
                      excluded_keys |-> <<>>]>>}}

InitPrettyOutput ==
    /\ strategy = "ConfigParserMerge"
    /\ config \in PrettyOutputConfigs
    /\ template_contents \in {Join(sections, <<>>) :
                                 sections \in SeqsUpTo(UnsortedTemplateSections,
                                                       MaxSections)}
    /\ template_mode = 33188
    /\ template_meta = TemplateMeta(Commit(1), FALSE)
    /\ target_contents \in {None} \cup
                           {Join(sections, <<>>) :
                               sections \in SeqsUpTo(UnsortedTargetSections,
                                                     MaxSections)}
    /\ target_mode = IF target_contents = None THEN 0 ELSE 420
    /\ last = NoInvocation
    /\ previous = NoInvocation
    /\ rollups = 0
    /\ edits = 0
    /\ NoDispatch
    /\ NoProject
    /\ NoVcs
    /\ NoGit
    /\ NoNewline

SpecPrettyOutput == InitPrettyOutput /\ [][Rollup]_vars

(***************************************************************************)
(* SetupCfgMerge over requirement lists of a few entries                   *)
(***************************************************************************)
MaxRequirements == 2

TemplateRequirements == {b("foo==1.0"), b("Bar"), b("baz[x]>=2")}

\* the target pins other versions, one of them written with spaces
TargetRequirements == {b("FOO==2.0"), b("bar==1.0"), b("bar >= 1.0")}

\* the lines of one key of setup.cfg; the key is left out when it has no entries
requirement_lines(key, requirements) ==
    IF requirements = <<>> THEN <<>>
    ELSE <<key \o b(" =")>>
         \o [i \in 1..Len(requirements) |-> b("    ") \o requirements[i]]

\* a setup.cfg with the section options
setup_cfg(install_requires, tests_require, newline) ==
    JoinEach(<<b("[options]")>>
             \o requirement_lines(b("install_requires"), install_requires)
             \o requirement_lines(b("tests_require"), tests_require),
             newline)

\* merge_requirements for the two keys of the section options
MergeRequirementsConfigs ==
    {[preserve_sections |-> <<>>,
      preserve_keys |-> <<>>,
      merge_requirements |->
          <<[sections |-> Pattern({b("options")}, TRUE),
             keys |-> Pattern({b("install_requires"), b("tests_require")}, TRUE)]>>]}

InitSetupCfgMerge ==
    /\ strategy = "SetupCfgMerge"
    /\ config \in MergeRequirementsConfigs
    /\ template_contents \in
           {setup_cfg(install_requires, tests_require, <<LF>>) :
               install_requires \in SeqsUpTo(TemplateRequirements, MaxRequirements),
               tests_require \in {<<>>, <<b("pytest")>>}}
    /\ template_mode = 33188
    /\ template_meta = TemplateMeta(Commit(1), FALSE)
    /\ target_contents \in {None} \cup
           {setup_cfg(install_requires, tests_require, <<LF>>) :
               install_requires \in SeqsUpTo(TargetRequirements, MaxRequirements),
               tests_require \in {<<>>, <<b("pytest>=5"), b("mock")>>}}
    /\ target_mode = IF target_contents = None THEN 0 ELSE 420
    /\ last = NoInvocation
    /\ previous = NoInvocation
    /\ rollups = 0
    /\ edits = 0
    /\ NoDispatch
    /\ NoProject
    /\ NoVcs
    /\ NoGit
    /\ NoNewline

SpecSetupCfgMerge == InitSetupCfgMerge /\ [][Rollup]_vars

(***************************************************************************)
(* Targets with "\r\n" line ends under templates with "\n" line ends       *)
(***************************************************************************)
NewlineStrategies ==
    {"SortedUniqueLines", "TemplateHash", "ConfigParserMerge", "SetupCfgMerge"}

\* rendered template files whose lines end with "\n"
LfTemplates(s) ==
    CASE s = "SortedUniqueLines" -> {b("# h\nzebra\nApple\n"), b("a\n")}
      [] s = "TemplateHash" -> {b("a\n"), b("b\nc\n"), b("")}
      [] s = "ConfigParserMerge" ->
             {b("[metadata]\nversion = 1\n"), b("[tox]\nenvlist =\n    py39\n    py38\n")}
      [] s = "SetupCfgMerge" ->
             {b("[options]\ninstall_requires =\n    foo\n"),
              b("[options]\ninstall_requires = Bar\n")}

\* target files whose first line ends with "\r\n"; some have a later line that
\* ends with "\n"
CrlfTargets(s) ==
    CASE s = "SortedUniqueLines" -> {b("# ignored\r\napple\r\n"), b("b\r\n# c\nd\n")}
      [] s = "TemplateHash" -> {b("x\r\n"), b("y\r\nz\n")}
      [] s = "ConfigParserMerge" ->
             {b("[metadata]\r\nversion = 2\r\n[tox]\r\nenvlist =\r\n    py37\r\n    py36\r\n"),
              b("[tox]\r\nenvlist = py37\ndeps = tox\n")}
      [] s = "SetupCfgMerge" ->
             {b("[options]\r\ninstall_requires =\r\n    bar\r\n    baz\r\n"),
              b("[options]\r\ninstall_requires = bar\n")}

InitNewline ==
    /\ strategy \in NewlineStrategies
    /\ config \in Configs(strategy)
    /\ template_contents \in LfTemplates(strategy)
    /\ template_mode = 33188
    /\ template_meta = TemplateMeta(Commit(1), FALSE)
    /\ target_contents \in CrlfTargets(strategy)
    /\ target_mode = 420
    /\ last = NoInvocation
    /\ previous = NoInvocation
    /\ rollups = 0
    /\ edits = 0
    /\ NoDispatch
    /\ NoProject
    /\ NoVcs
    /\ NoGit
    /\ NoNewline

NextNewline ==
    \/ Rollup
    \/ TemplateCommit
    \/ TemplateEdited(LfTemplates(strategy))
    \/ TargetEdited

SpecNewline == InitNewline /\ [][NextNewline]_vars

(***************************************************************************)
(* Projects, rendered templates and scaraplate.yaml files to roll up       *)
(***************************************************************************)
ManifestPath == b("MANIFEST.in")

ToxIniPath == b("tox.ini")

\* a .scaraplate.conf as the template renders it, and one without any value
RenderedConf == b("[cookiecutter_context]\nname = p\n")

EmptyConf == b("[cookiecutter_context]\n")

\* a tox.ini that configparser reads, one without a section header, which it does
\* not, and the tox.ini of the template
TargetToxIni == b("[tox]\nenvlist = old\n")

BrokenToxIni == b("envlist = old\n")

TemplateToxIni == b("[tox]\nenvlist = py\n")

\* the reference of a class of scaraplate.strategies
Ref(name) == Str(b("scaraplate.strategies.") \o b(name))

\* {strategy: <ref>, config: {...}}
Node(name, raw_config) ==
    Map(<<<<b("strategy"), Ref(name)>>, <<b("config"), Map(raw_config)>>>>)

\* {sections: <pattern>}, with more keys
Entry(sections, more) == Map(<<<<b("sections"), Str(b(sections))>>>> \o more)

\* the config of ConfigParserMerge, one entry in preserve_sections
MergeConfig(entry, more) ==
    <<<<b("preserve_sections"), List(<<entry>>)>>, <<b("preserve_keys"), List(<<>>)>>>>
    \o more

\* the nodes scaraplate.yaml can give MANIFEST.in: two valid ones, a pattern that
\* does not compile, and the abstract base class
ManifestNodes ==
    {Ref("SortedUniqueLines"), Ref("IfMissing"),
     Node("SortedUniqueLines", <<<<b("comment_pattern"), Str(b("^(#"))>>>>),
     Ref("Strategy")}

\* the nodes scaraplate.yaml can give tox.ini: a valid one and one with a key the
\* schema does not declare
ToxIniNodes ==
    {Node("ConfigParserMerge", MergeConfig(Entry("^tox$", <<>>), <<>>)),
     Node("ConfigParserMerge",
          MergeConfig(Entry("^tox$", <<>>), <<<<b("preserve_key"), List(<<>>)>>>>))}

\* scaraplate.yaml: Overwrite by default, a node for MANIFEST.in and one for tox.ini
Yaml(manifest_node, tox_ini_node) ==
    [default_strategy |-> Ref("Overwrite"),
     strategies_mapping |-> <<<<ManifestPath, manifest_node>>, <<ToxIniPath, tox_ini_node>>>>]

\* the rendered template: MANIFEST.in, tox.ini and, if the template generates it,
\* .scaraplate.conf
Generated(conf, manifest_mode) ==
    [p \in {ManifestPath, ToxIniPath} \cup (IF conf = None THEN {} ELSE {ScaraplateConfPath}) |->
        IF p = ManifestPath THEN [contents |-> b("a\n"), mode |-> manifest_mode]
        ELSE IF p = ToxIniPath THEN [contents |-> TemplateToxIni, mode |-> 33188]
        ELSE [contents |-> conf, mode |-> 33188]]

\* a file of the target project, with the permission bits rw-r--r--
TargetFile(contents) ==
    IF contents = None THEN NoSuchFile ELSE [contents |-> contents, mode |-> 420]

\* the target project
Project(conf, manifest, tox_ini) ==
    [p \in {ScaraplateConfPath, ManifestPath, ToxIniPath} |->
        IF p = ManifestPath THEN TargetFile(manifest)
        ELSE IF p = ToxIniPath THEN TargetFile(tox_ini)
        ELSE TargetFile(conf)]

\* rollup() is about to be called for a project
ReadyToRollup ==
    /\ pc = "ready"
    /\ raised = "no"
    /\ todo = <<>>
    /\ scaraplate_yaml_strategies = <<>>
    /\ before = project
    /\ original = project
    /\ step = NoStep
    /\ written = {}
    /\ runs = 0
    /\ repaired = {}

InitRollup ==
    /\ scaraplate_yaml \in {Yaml(m, t) : m \in ManifestNodes, t \in ToxIniNodes}
    /\ generated \in {Generated(conf, mode) : conf \in {None, EmptyConf, RenderedConf},
                                              mode \in FileModes}
    /\ project \in {Project(conf, manifest, tox_ini) :
                       conf \in {None, RenderedConf},
                       manifest \in {None, b("b\n# c\n")},
                       tox_ini \in {TargetToxIni, BrokenToxIni}}
    /\ ReadyToRollup
    /\ NoVcs
    /\ NoGit
    /\ NoNewline
    /\ NoFile
    /\ NoDispatch

NextRollup == StartRollup \/ ApplyFile \/ TargetRepaired(TargetToxIni)

SpecRollup == InitRollup /\ [][NextRollup]_vars

\* scaraplate.yaml without strategies_mapping: every file gets the default strategy
DefaultOnly(default_strategy) ==
    [default_strategy |-> default_strategy, strategies_mapping |-> <<>>]

\* {sections: ^tox$, keys: ^deps$}, with more keys
KeyEntry(sections, more) == Entry(sections, <<<<b("keys"), Str(b("^deps$"))>>>> \o more)

\* {<key>: 1}
Stray(key) == <<<<b(key), Int_(1)>>>>

\* the config of SetupCfgMerge: that of ConfigParserMerge and merge_requirements
SetupConfig(entry) ==
    MergeConfig(Entry("^tox$", <<>>), <<<<b("merge_requirements"), List(<<entry>>)>>>>)

\* the raw nodes of the strategies without a config of their own
PlainNodes ==
    {Ref("Overwrite"), Ref("IfMissing"), Node("Overwrite", <<>>),
     Node("Overwrite", Stray("some_key")), Node("IfMissing", Stray("some_key"))}

\* the raw nodes of SortedUniqueLines: valid ones, a key that is not declared, a
\* pattern that does not compile and a pattern that is no string
SortedUniqueLinesNodes ==
    {Ref("SortedUniqueLines"),
     Node("SortedUniqueLines", <<<<b("comment_pattern"), Str(b("^#"))>>>>),
     Node("SortedUniqueLines", <<<<b("comment_pattern"), Null>>>>),
     Node("SortedUniqueLines", <<<<b("comment_patern"), Str(b("^#"))>>>>),
     Node("SortedUniqueLines", <<<<b("comment_pattern"), Str(b("^(#"))>>>>),
     Node("SortedUniqueLines", <<<<b("comment_pattern"), Int_(1)>>>>)}

\* the raw nodes of the two hash strategies
HashNodes ==
    {Node(s, c) :
        s \in HashStrategies,
        c \in {<<>>,
               <<<<b("max_line_length"), Int_(87)>>>>,
               <<<<b("max_line_length"), Int_(10)>>>>,
               <<<<b("max_line_length"), Int_(9)>>>>,
               <<<<b("max_line_length"), Str(b("9"))>>>>,
               <<<<b("line_comment_start"), Str(b("//"))>>>>,
               <<<<b("line_comment_start"), Str(b("//"))>>>> \o Stray("max_length")}}

\* the raw nodes of ConfigParserMerge and SetupCfgMerge: the keys that are not
\* declared are at the top or in an entry, the patterns that do not compile are
\* in an entry
MergeNodes ==
    {Node("ConfigParserMerge", c) :
        c \in {MergeConfig(Entry("^tox$", <<>>), <<>>),
               MergeConfig(Entry("^tox$", <<<<b("excluded_keys"), Str(b("^deps$"))>>>>),
                           <<>>),
               MergeConfig(Entry("^tox$", <<>>), Stray("preserve_key")),
               MergeConfig(Entry("^tox$", Stray("excluded_key")), <<>>),
               MergeConfig(Entry("^tox$", <<<<b("excluded_keys"), Str(b("[deps"))>>>>),
                           <<>>),
               MergeConfig(Entry("^(tox$", <<>>), <<>>)}}
    \cup {Node("SetupCfgMerge", c) :
             c \in {SetupConfig(KeyEntry("^options$", <<>>)),
                    SetupConfig(KeyEntry("^options$", Stray("key"))),
                    SetupConfig(KeyEntry("options)", <<>>))}}

RawNodes == PlainNodes \cup SortedUniqueLinesNodes \cup HashNodes \cup MergeNodes

\* a project with nothing but .scaraplate.conf, which the default strategy gets
InitConstruct ==
    /\ scaraplate_yaml \in {DefaultOnly(raw) : raw \in RawNodes}
    /\ generated \in {[p \in {ScaraplateConfPath} |-> [contents |-> RenderedConf,
                                                      mode |-> mode]] :
                         mode \in FileModes}
    /\ project \in {[p \in {ScaraplateConfPath} |-> TargetFile(conf)] :
                       conf \in {None, RenderedConf, b("[cookiecutter_context]\nname = q\n")}}
    /\ ReadyToRollup
    /\ NoVcs
    /\ NoGit
    /\ NoNewline
    /\ NoFile
    /\ NoDispatch

NextConstruct == StartRollup \/ ApplyFile

SpecConstruct == InitConstruct /\ [][NextConstruct]_vars

\* automatic_rollup is about to be called for a project repository
InitAutomaticRollup ==
    /\ scaraplate_yaml \in {Yaml(m, Node("ConfigParserMerge",
                                         MergeConfig(Entry("^tox$", <<>>), <<>>))) :
                               m \in {Ref("SortedUniqueLines"), Ref("IfMissing")}}
    /\ generated \in {Generated(conf, mode) : conf \in {None, RenderedConf},
                                              mode \in FileModes}
    /\ head \in {Project(RenderedConf, manifest, tox_ini) :
                    manifest \in {None, b("a\n"), b("b\n# c\n")},
                    tox_ini \in {TargetToxIni, BrokenToxIni}}
    /\ branch = head
    /\ commit_calls = 0
    /\ auto_pc = "idle"
    /\ project = head
    /\ pc = "idle"
    /\ raised = "no"
    /\ todo = <<>>
    /\ scaraplate_yaml_strategies = <<>>
    /\ before = head
    /\ original = head
    /\ step = NoStep
    /\ written = {}
    /\ runs = 0
    /\ repaired = {}
    /\ NoFile
    /\ NoDispatch
    /\ NoGit
    /\ NoNewline

NextAutomaticRollup ==
    Clone \/ StartRollup \/ ApplyFile \/ AutomaticRollupEnds \/ MergeRequestMerged

SpecAutomaticRollup == InitAutomaticRollup /\ [][NextAutomaticRollup]_vars

(***************************************************************************)
(* What the files are expected to hold, written out from the documented    *)
(* formats                                                                 *)
(***************************************************************************)
\* a rollup step: apply_generated_project has handled the file
RollupStep == rollups' = rollups + 1

\* a strategy has been invoked and has returned
Applied == last.error = "no"

\* the newline the last invocation detected
LastNewline == detect_newline(<<last.target, last.template>>, <<LF>>)

\* one line of a generated comment block, with the linter mark when the line
\* reaches max_line_length
MarkerLine(cfg, text) ==
    cfg.line_comment_start \o b(" ") \o text
    \o (IF cfg.max_line_length # <<>>
           /\ Len(cfg.line_comment_start) + 1 + Len(text) >= cfg.max_line_length[1]
        THEN cfg.max_line_linter_ignore_mark
        ELSE <<>>)

GeneratedByLine ==
    b("Generated by https://github.com/rambler-digital-solutions/scaraplate")

CommitUrl(commit_hash) == b("https://github.com/o/t/commit/") \o commit_hash

FromLine(meta) ==
    (IF meta.is_git_dirty THEN b("From (dirty) ") ELSE b("From "))
    \o CommitUrl(meta.commit_hash)

\* the comment block of TemplateHash for a TemplateMeta
Marker(cfg, meta, newline) ==
    MarkerLine(cfg, GeneratedByLine) \o newline
    \o MarkerLine(cfg, FromLine(meta)) \o newline

\* the template lines re-joined with the newline, a blank line, a fresh comment block
Rewritten(cfg, meta, target, template) ==
    JoinEach(bytes_splitlines(template), detect_newline(<<target, template>>, <<LF>>))
    \o detect_newline(<<target, template>>, <<LF>>)
    \o Marker(cfg, meta, detect_newline(<<target, template>>, <<LF>>))

\* the commits a target file records: those whose "From <commit_url>" line it holds
RecordedCommits(target) ==
    {n \in 1..NumCommits :
        target # None /\ Contains(b("From ") \o CommitUrl(Commit(n)), target)}

\* the marker block of RenderedTemplateFileHash that embeds the hash of a template
RenderedMarker(cfg, template, newline) ==
    MarkerLine(cfg, GeneratedByLine) \o newline
    \o MarkerLine(cfg, b("RenderedTemplateFileHash ") \o md5_hexdigest(template))
    \o newline

(***************************************************************************)
(* C1                                                                      *)
(***************************************************************************)
\* C1: every strategy is idempotent: when a rollup has written O = apply(T, G) and
\* the next rollup runs with the same template, the same TemplateMeta and O as the
\* target, that rollup returns exactly O.
StrategiesAreIdempotent ==
    (/\ previous.error = "no"
     /\ last.error # "none"
     /\ last.template = previous.template
     /\ last.meta = previous.meta
     /\ last.target = previous.out)
    => (last.error = "no" /\ last.out = last.target)

(***************************************************************************)
(* C2                                                                      *)
(***************************************************************************)
\* shell-style matching of the paths against the keys, '/' an ordinary character
GlobMatches ==
    {<<b("a.txt"), b("*.txt")>>,
     <<b("b.py"), b("?.py")>>, <<b("b.py"), b("[a-c].py")>>,
     <<b("x.py"), b("?.py")>>,
     <<b("d/a.txt"), b("*.txt")>>, <<b("d/a.txt"), b("d/*")>>,
     <<b("setup.cfg"), b("[!a]*.cfg")>>}

\* the indices of the keys of strategies_mapping that match path
MatchingKeys ==
    {i \in 1..Len(strategies_mapping) : <<path, strategies_mapping[i][1]>> \in GlobMatches}

\* C2: get_strategy returns the node of the lexicographically smallest key that
\* glob-matches the path, default_strategy when no key matches, and the same node
\* for every insertion order of the mapping.
StrategyResolution ==
    node # "none" =>
        /\ IF MatchingKeys = {} THEN node = DefaultStrategy
           ELSE \E i \in MatchingKeys :
                    /\ node = strategies_mapping[i][2]
                    /\ \A j \in MatchingKeys :
                           SeqLeq(strategies_mapping[i][1], strategies_mapping[j][1])
        /\ \A mapping \in Mappings :
               Range(mapping) = Range(strategies_mapping)
                   => get_strategy(mapping, DefaultStrategy, path) = node

\* two keys match d/a.txt; the smaller one, "*.txt", was inserted last
ResolvedToSmallestKey ==
    /\ strategies_mapping = <<<<b("d/*"), "SortedUniqueLines">>, <<b("*.txt"), "IfMissing">>>>
    /\ path = b("d/a.txt")
    /\ node = "IfMissing"

(***************************************************************************)
(* C3                                                                      *)
(***************************************************************************)
\* C3: Overwrite.apply returns exactly the template bytes whatever the target is,
\* and after the rollup the target file equals the rendered template file.
OverwriteWritesTemplate ==
    [][(RollupStep /\ strategy = "Overwrite")
           => /\ last'.error = "no"
              /\ last'.out = template_contents
              /\ target_contents' = template_contents]_vars

\* a non-empty target that differed from the template has been overwritten
OverwroteTarget ==
    /\ strategy = "Overwrite"
    /\ Applied
    /\ last.target = b("x\n")
    /\ last.template = b("a\n")
    /\ target_contents = b("a\n")

(***************************************************************************)
(* C4                                                                      *)
(***************************************************************************)
\* C4: IfMissing.apply returns the template bytes when the target is absent and the
\* target bytes when it is present (an empty file included); no rollup changes the
\* content of an existing target.
IfMissingKeepsTarget ==
    [][(RollupStep /\ strategy = "IfMissing")
           => /\ last'.error = "no"
              /\ last'.out = IF target_contents = None THEN template_contents
                             ELSE target_contents
              /\ target_contents' = last'.out]_vars

\* an existing empty target has come through two rollups of a non-empty template
KeptEmptyTarget ==
    /\ strategy = "IfMissing"
    /\ rollups >= 2
    /\ Applied
    /\ last.target = <<>>
    /\ last.template # <<>>
    /\ target_contents = <<>>

(***************************************************************************)
(* C5                                                                      *)
(***************************************************************************)
\* a line the default comment_pattern matches, or a blank line
IsHeaderLine(line) ==
    \/ \A i \in 1..Len(line) : line[i] \in Whitespace
    \/ \E k \in 0..(Len(line) - 1) :
           /\ \A i \in 1..k : line[i] = SP
           /\ \/ line[k + 1] \in {ord(";"), ord("#"), ord("%")}
              \/ k + 2 <= Len(line) /\ line[k + 1] = ord("/") /\ line[k + 2] = ord("/")

\* the length of the maximal leading run of header lines
HeaderLength(lines) ==
    CHOOSE h \in 0..Len(lines) :
        /\ \A i \in 1..h : IsHeaderLine(lines[i])
        /\ h < Len(lines) => ~IsHeaderLine(lines[h + 1])

HeaderOf(lines) == SubSeq(lines, 1, HeaderLength(lines))

BodyOf(lines) == {lines[i] : i \in (HeaderLength(lines) + 1)..Len(lines)}

Folded(line) == [i \in 1..Len(line) |-> IF line[i] \in 65..90 THEN line[i] + 32 ELSE line[i]]

\* the order of the key (case-folded line, original line)
KeyBefore(a, c) ==
    \/ SeqLess(Folded(a), Folded(c))
    \/ Folded(a) = Folded(c) /\ SeqLess(a, c)

\* the body the output must hold: template and target bodies, no empty line
MergedBody ==
    (BodyOf(str_splitlines(last.template))
     \cup (IF last.target = None THEN {} ELSE BodyOf(str_splitlines(last.target))))
    \ {<<>>}

\* the lines of the output after the header of the template
OutputBody ==
    SubSeq(str_splitlines(last.out),
           Len(HeaderOf(str_splitlines(last.template))) + 1,
           Len(str_splitlines(last.out)))

\* C5: the output of SortedUniqueLines.apply is the header of the template, then
\* the body lines of the template and of the target (whose header is discarded),
\* without duplicates and without empty lines, ordered by (case-folded line,
\* line), then one trailing empty line, all joined with the detected newline.
SortedUniqueLinesOutput ==
    (strategy = "SortedUniqueLines" /\ last.error # "none") =>
        /\ Applied
        /\ last.out = JoinEach(HeaderOf(str_splitlines(last.template)) \o OutputBody,
                               LastNewline)
        /\ SubSeq(str_splitlines(last.out), 1,
                  Len(HeaderOf(str_splitlines(last.template))))
               = HeaderOf(str_splitlines(last.template))
        /\ Range(OutputBody) = MergedBody
        /\ \A i, j \in 1..Len(OutputBody) :
               i < j => KeyBefore(OutputBody[i], OutputBody[j])

\* the documented example: [# h, zebra, Apple] and [# ignored, apple]
SortedExample ==
    /\ strategy = "SortedUniqueLines"
    /\ Applied
    /\ last.template = b("# h\nzebra\nApple\n")
    /\ last.target = b("# ignored\napple\n")
    /\ last.out = b("# h\nApple\napple\nzebra\n")
    /\ target_contents = last.out

(***************************************************************************)
(* C6                                                                      *)
(***************************************************************************)
\* C6: TemplateHash with a clean template: the first apply gives the template and
\* the comment block; applied again to that output at the same commit it returns
\* the output byte for byte; every target that contains the rendered comment
\* block is returned unchanged, manual edits included.
TemplateHashKeepsMarkedTarget ==
    (strategy = "TemplateHash" /\ last.error # "none" /\ ~last.meta.is_git_dirty) =>
        /\ Applied
        /\ last.target = None
               => last.out = Rewritten(config, last.meta, last.target, last.template)
        /\ (last.target # None /\ Contains(Marker(config, last.meta, LastNewline), last.target))
               => last.out = last.target
        /\ (/\ previous.error = "no"
            /\ previous.meta = last.meta
            /\ previous.template = last.template
            /\ last.target = previous.out)
               => last.out = last.target

\* a target that holds the comment block and a manual edit has been kept
KeptEditedTarget ==
    /\ strategy = "TemplateHash"
    /\ Applied
    /\ ~last.meta.is_git_dirty
    /\ last.target # None
    /\ Contains(Marker(config, last.meta, LastNewline), last.target)
    /\ Contains(EditLine, last.target)
    /\ previous.error = "no"
    /\ previous.out # last.target
    /\ last.out = last.target
    /\ target_contents = last.target

(***************************************************************************)
(* C7                                                                      *)
(***************************************************************************)
\* C7: when the template is dirty, TemplateHash.apply never keeps the target,
\* whatever the target holds: the output is the template lines re-joined with the
\* detected newline, a blank line, and a fresh comment block whose commit line
\* reads "From (dirty) <commit_url>".
DirtyForcesRewrite ==
    (strategy = "TemplateHash" /\ last.error # "none" /\ last.meta.is_git_dirty) =>
        /\ Applied
        /\ last.out = Rewritten(config, last.meta, last.target, last.template)
        /\ Contains(b("From (dirty) ") \o CommitUrl(last.meta.commit_hash), last.out)

\* a target that held the comment block of the same dirty commit has been rewritten
RewroteMarkedTargetWhenDirty ==
    /\ strategy = "TemplateHash"
    /\ Applied
    /\ last.meta.is_git_dirty
    /\ last.target # None
    /\ Contains(Marker(config, last.meta, LastNewline), last.target)
    /\ last.out # last.target
    /\ target_contents = last.out

(***************************************************************************)
(* C8                                                                      *)
(***************************************************************************)
\* C8: in every rollup with a clean template, TemplateHash leaves the target as it
\* is when the target records the HEAD commit of the template, and otherwise (the
\* HEAD has changed since, or nothing is recorded) overwrites it with the template
\* and a new comment block.
UntouchedUntilHeadChanges ==
    [][(RollupStep /\ strategy = "TemplateHash" /\ ~template_meta.is_git_dirty)
           => IF commit_number(template_meta) \in RecordedCommits(target_contents)
              THEN target_contents' = target_contents
              ELSE target_contents' = Rewritten(config, template_meta, target_contents,
                                                template_contents)]_vars

\* the target was left untouched at one commit and overwritten at the next
OverwrittenAfterHeadChanged ==
    /\ strategy = "TemplateHash"
    /\ Applied
    /\ previous.error = "no"
    /\ ~previous.meta.is_git_dirty
    /\ previous.target # None
    /\ previous.out = previous.target
    /\ ~last.meta.is_git_dirty
    /\ last.meta # previous.meta
    /\ last.target = previous.out
    /\ commit_number(previous.meta) \in RecordedCommits(last.target)
    /\ last.out # last.target
    /\ commit_number(last.meta) \in RecordedCommits(target_contents)

(***************************************************************************)
(* C9                                                                      *)
(***************************************************************************)
\* C9: RenderedTemplateFileHash returns the target unchanged whenever the target
\* holds the marker block with the MD5 of the current template bytes, for every
\* TemplateMeta: any commit hash, any dirty flag.
RenderedHashKeepsTarget ==
    (/\ strategy = "RenderedTemplateFileHash"
     /\ Applied
     /\ last.target # None
     /\ Contains(RenderedMarker(config, last.template, LastNewline), last.target))
    => last.out = last.target

(***************************************************************************)
(* C10                                                                     *)
(***************************************************************************)
\* the preserve_sections patterns are ^tox$ and, when configured, ^deps$
IsPreservedSection(name) == name = b("tox")

IsExcludedKey(key) ==
    config.preserve_sections[1].excluded_keys # <<>> /\ key = b("deps")

\* the key/value pairs of a section of a parsed file, none when it has no such section
OptionsOf(parser, name) ==
    IF section_index(parser.sections, name) = 0 THEN {}
    ELSE Range(parser.sections[section_index(parser.sections, name)].opts)

\* C10: for every section of the target whose name matches a preserve_sections
\* pattern, whether or not the template has the section and whether or not
\* excluded_keys is configured, the output has the section with the key/value
\* pairs of the target, except that the excluded keys carry the value of the
\* template.
PreservedSectionsCopied ==
    (/\ strategy = "ConfigParserMerge"
     /\ last.error # "none"
     /\ last.target # None
     /\ parse_config(last.template).error = "no"
     /\ parse_config(last.target).error = "no")
    => \A i \in 1..Len(parse_config(last.target).sections) :
           LET name == parse_config(last.target).sections[i].name
               kept == {o \in OptionsOf(parse_config(last.target), name) :
                           ~IsExcludedKey(o[1])}
               excluded == {o \in OptionsOf(parse_config(last.template), name) :
                               IsExcludedKey(o[1])}
           IN  IsPreservedSection(name) =>
                   /\ Applied
                   /\ has_section(parse_config(last.out), name)
                   /\ kept \cup excluded \subseteq OptionsOf(parse_config(last.out), name)
                   /\ \A o \in OptionsOf(parse_config(last.out), name) :
                          \/ o \in kept \cup excluded
                          \/ IsExcludedKey(o[1])

(***************************************************************************)
(* C11                                                                     *)
(***************************************************************************)
\* the preserve_keys patterns are ^metadata$ and ^version$
IsPreservedKey(name, key) == name = b("metadata") /\ key = b("version")

\* the (section, key, value) triples of a parsed file
Triples(parser) ==
    UNION {{<<parser.sections[i].name, o[1], o[2]>> : o \in Range(parser.sections[i].opts)}
           : i \in 1..Len(parser.sections)}

\* C11: for every (section, key) of the target that matches a preserve_keys entry
\* the output holds the value of the target, also in a section the template
\* lacks; every other key of the template keeps the value of the template, and
\* no key that only the target has and that matches no entry is in the output.
PreservedKeysCopied ==
    (/\ strategy = "ConfigParserMerge"
     /\ config \in PreserveKeysConfigs
     /\ last.error # "none"
     /\ last.target # None
     /\ parse_config(last.template).error = "no"
     /\ parse_config(last.target).error = "no")
    => LET preserved == {o \in Triples(parse_config(last.target)) :
                            IsPreservedKey(o[1], o[2])}
           others == {o \in Triples(parse_config(last.template)) :
                         \A p \in preserved : <<p[1], p[2]>> # <<o[1], o[2]>>}
       IN  /\ Applied
           /\ Triples(parse_config(last.out)) = preserved \cup others

(***************************************************************************)
(* C12                                                                     *)
(***************************************************************************)
\* the names of the sections of a file, in the order of the file
SectionNames(parser) == [i \in 1..Len(parser.sections) |-> parser.sections[i].name]

\* the keys of the i-th section of a file, in the order of the file
KeysOf(parser, i) ==
    [j \in 1..Len(parser.sections[i].opts) |-> parser.sections[i].opts[j][1]]

\* a sequence of strings in strictly ascending lexicographic order
Ascending(names) == \A i \in 1..Len(names) - 1 : SeqLess(names[i], names[i + 1])

\* C12: the output of ConfigParserMerge lists its sections in lexicographic order
\* of their names and the keys of every section in lexicographic order, for
\* every pair of inputs, a section named DEFAULT included; no line of it holds a
\* tab or ends with whitespace.
SortedPrettyOutput ==
    (strategy = "ConfigParserMerge" /\ config \in PrettyOutputConfigs /\ Applied)
    => /\ Ascending(SectionNames(parse_config(last.out)))
       /\ \A i \in 1..Len(parse_config(last.out).sections) :
              Ascending(KeysOf(parse_config(last.out), i))
       /\ \A i \in 1..Len(last.out) : last.out[i] # TAB
       /\ \A i \in 1..Len(str_splitlines(last.out)) :
              LET line == str_splitlines(last.out)[i]
              IN  line = <<>> \/ line[Len(line)] \notin Whitespace

(***************************************************************************)
(* C13                                                                     *)
(***************************************************************************)
RequirementKeys == {b("install_requires"), b("tests_require")}

IsEntry(line) == line # <<>>

\* the entries of the requirement list of a key of the section options of a file,
\* one entry per line of the value (no entries when the file lacks the key)
EntriesOf(contents, key) ==
    IF contents = None THEN <<>>
    ELSE LET values == {o[2] : o \in {o \in OptionsOf(parse_config(contents), b("options")) :
                                         o[1] = key}}
         IN  IF values = {} THEN <<>>
             ELSE LET lines == str_splitlines(CHOOSE v \in values : TRUE)
                  IN  SelectSeq([i \in 1..Len(lines) |-> strip(lines[i])],
                                IsEntry)

\* the package name of an entry, lower-cased: the entry up to its extras, its
\* version specifier or its marker
PackageName(entry) ==
    casefold(strip(SubSeq(entry, 1,
                          IF first_in(entry, 1, {91, 60, 61, 62, 33, 126, 59, 32}) = 0
                          THEN Len(entry)
                          ELSE first_in(entry, 1, {91, 60, 61, 62, 33, 126, 59, 32}) - 1)))

IsTemplateOnly(target_entries, entry) ==
    \A i \in 1..Len(target_entries) : PackageName(target_entries[i]) # PackageName(entry)

\* the template entries whose package the target does not name
RECURSIVE TemplateOnly(_, _)
TemplateOnly(template_entries, target_entries) ==
    IF template_entries = <<>> THEN <<>>
    ELSE (IF IsTemplateOnly(target_entries, template_entries[1])
          THEN <<template_entries[1]>> ELSE <<>>)
         \o TemplateOnly(Tail(template_entries), target_entries)

\* a list of entries in ascending case-insensitive order
SortedEntries(entries) ==
    \A i \in 1..Len(entries) - 1 : SeqLeq(casefold(entries[i]), casefold(entries[i + 1]))

\* entries is the list wanted with its entries in another order
SameEntries(entries, wanted) ==
    /\ Len(entries) = Len(wanted)
    /\ \A e \in Range(wanted) :
           Cardinality({i \in 1..Len(entries) : entries[i] = e})
           = Cardinality({i \in 1..Len(wanted) : wanted[i] = e})

\* C13: for every (section, key) that merge_requirements selects, the merged list
\* holds every entry of the target as the target writes it and every entry of the
\* template whose package name, lower-cased and without version and extras, the
\* target does not name; the list is sorted case-insensitively and written with
\* an empty first entry.
RequirementsMerged ==
    (/\ strategy = "SetupCfgMerge"
     /\ config \in MergeRequirementsConfigs
     /\ last.error # "none")
    => /\ Applied
       /\ \A key \in RequirementKeys :
              LET wanted == EntriesOf(last.target, key)
                            \o TemplateOnly(EntriesOf(last.template, key),
                                            EntriesOf(last.target, key))
                  merged == EntriesOf(last.out, key)
                  value == {o[2] : o \in {o \in OptionsOf(parse_config(last.out),
                                                         b("options")) : o[1] = key}}
              IN  /\ SameEntries(merged, wanted)
                  /\ SortedEntries(merged)
                  /\ wanted # <<>> => value = {Join(<<<<>>>> \o merged, <<LF>>)}

(***************************************************************************)
(* C14                                                                     *)
(***************************************************************************)
\* every line of the contents ends with "\r\n": each "\n" follows a "\r", each
\* "\r" is followed by a "\n", and nothing follows the last line end
EveryLineEndsWithCrLf(contents) ==
    /\ \A i \in 1..Len(contents) : contents[i] = LF => i > 1 /\ contents[i - 1] = CR
    /\ \A i \in 1..Len(contents) :
           contents[i] = CR => i < Len(contents) /\ contents[i + 1] = LF
    /\ contents = <<>> \/ contents[Len(contents)] = LF

\* the last invocation was given a target that uses "\r\n" and a template that
\* uses "\n", and its strategy wrote new content
RewroteCrLfTarget ==
    /\ strategy \in NewlineStrategies
    /\ Applied
    /\ last.target # None
    /\ line_newline(readline(last.target)) = <<CR, LF>>
    /\ \A i \in 1..Len(last.template) : last.template[i] # CR
    /\ strategy = "TemplateHash" => last.out # last.target

\* C14: when the target uses "\r\n" and the template uses "\n", every line of the
\* content that SortedUniqueLines, ConfigParserMerge, SetupCfgMerge or a rewriting
\* TemplateHash produces ends with "\r\n"; the output has no bare "\n".
NewlinePreserved == RewroteCrLfTarget => EveryLineEndsWithCrLf(last.out)

\* SetupCfgMerge has merged a requirement list of several lines into a target
\* that uses "\r\n"
MergedCrLfRequirements ==
    /\ RewroteCrLfTarget
    /\ strategy = "SetupCfgMerge"
    /\ last.template = b("[options]\ninstall_requires =\n    foo\n")
    /\ Contains(b("bar\r\n    baz\r\n    foo\r\n"), last.out)

(***************************************************************************)
(* What a rollup is expected to leave in the project                       *)
(***************************************************************************)
\* the files of the rendered template whose target was repaired hold the repair
Repaired(tree) ==
    [p \in DOMAIN tree |->
        IF p \in repaired THEN [tree[p] EXCEPT !.contents = project[p].contents]
        ELSE tree[p]]

\* the outputs apply() can give for the file p of the rendered template over the
\* target tree `tree`, with the strategies of the running rollup
Outputs(tree, p) ==
    LET strategy_node == strategy_node_of(p)
        cfg == marshmallow_load_data(strategy_node.strategy, strategy_node.config).out
    IN  {apply(strategy_node.strategy, cfg, template_meta, read_target(tree, p),
               generated[p].contents, order).out :
            order \in apply_orders(strategy_node.strategy, cfg, read_target(tree, p),
                                   generated[p].contents)}

\* the file p holds an output of its strategy over `tree` and has the permission
\* bits of the template file
HoldsOutput(tree, p) ==
    /\ project[p].contents \in Outputs(tree, p)
    /\ project[p].mode = generated[p].mode % 512

\* rollup() has raised an exception for scaraplate.yaml: a strategy reference that
\* cannot be loaded, or a config that the constructor of the strategy rejects
FailedOnConfiguration ==
    /\ pc = "raised"
    /\ \/ step = NoStep /\ raised \in {"ValueError", "ModuleNotFoundError", "AttributeError"}
       \/ step.init \notin {"none", "no"}

(***************************************************************************)
(* C15  Configuration errors fail fast: when a rollup fails because of a   *)
(* bad strategy reference, an unknown config key or an invalid config      *)
(* value in scaraplate.yaml, no file of the target project has been        *)
(* written.                                                                *)
(***************************************************************************)
ConfigurationErrorsFailFast == FailedOnConfiguration => written = {}

(***************************************************************************)
(* C16  A config with a key the schema of the strategy does not declare    *)
(* (at the top or in an entry of preserve_keys, preserve_sections or       *)
(* merge_requirements), with a pattern that does not compile or with a     *)
(* max_line_length below 10 makes the constructor raise ValidationError,   *)
(* and apply() is not called.                                              *)
(***************************************************************************)
\* the keys the documentation of each strategy lists
DeclaredKeys(strat) ==
    CASE strat \in {"Overwrite", "IfMissing"} -> {}
      [] strat = "SortedUniqueLines" -> {b("comment_pattern")}
      [] strat \in HashStrategies ->
             {b("line_comment_start"), b("max_line_length"), b("max_line_linter_ignore_mark")}
      [] strat = "ConfigParserMerge" -> {b("preserve_keys"), b("preserve_sections")}
      [] strat = "SetupCfgMerge" ->
             {b("preserve_keys"), b("preserve_sections"), b("merge_requirements")}

\* the keys of an entry of the list called key
EntryKeys(key) ==
    IF key = b("preserve_sections") THEN {b("sections"), b("excluded_keys")}
    ELSE {b("sections"), b("keys")}

\* the entries of the lists of a raw config, each with the key of its list
EntriesIn(raw_config) ==
    UNION {{<<raw_config[i][1], raw_config[i][2].v[j]>> :
               j \in 1..(IF raw_config[i][2].kind = "list" THEN Len(raw_config[i][2].v)
                         ELSE 0)} :
              i \in 1..Len(raw_config)}

UndeclaredAtTop(strat, raw_config) ==
    \E i \in 1..Len(raw_config) : raw_config[i][1] \notin DeclaredKeys(strat)

UndeclaredInEntry(raw_config) ==
    \E e \in EntriesIn(raw_config) :
        \E k \in 1..Len(e[2].v) : e[2].v[k][1] \notin EntryKeys(e[1])

\* the patterns of the configs that Python's re does not compile
Uncompilable == {b("^(#"), b("[deps"), b("^(tox$"), b("options)")}

\* the values a raw config gives the keys that hold a pattern
PatternValues(raw_config) ==
    {raw_config[i][2] : i \in {i \in 1..Len(raw_config) :
                                  raw_config[i][1] = b("comment_pattern")}}
    \cup UNION {{e[2].v[k][2] : k \in 1..Len(e[2].v)} : e \in EntriesIn(raw_config)}

InvalidValue(raw_config) ==
    \/ \E value \in PatternValues(raw_config) :
           value.kind = "str" /\ value.v \in Uncompilable
    \/ \E i \in 1..Len(raw_config) :
           /\ raw_config[i][1] = b("max_line_length")
           /\ raw_config[i][2].kind = "int"
           /\ raw_config[i][2].v[1] < 10

Malformed(strat, raw_config) ==
    \/ UndeclaredAtTop(strat, raw_config)
    \/ UndeclaredInEntry(raw_config)
    \/ InvalidValue(raw_config)

ConstructorValidates ==
    (step # NoStep /\ Malformed(step.strategy, step.config))
        => (step.init = "ValidationError" /\ ~step.applied /\ pc = "raised")

RejectedEntryKey ==
    /\ step.strategy = "SetupCfgMerge"
    /\ UndeclaredInEntry(step.config)
    /\ ~UndeclaredAtTop(step.strategy, step.config)
    /\ ~InvalidValue(step.config)
    /\ step.init = "ValidationError"
    /\ ~step.applied

(***************************************************************************)
(* C17  If the rendered project lacks the cookiecutter-context file or the *)
(* file yields an empty context, rollup raises                             *)
(* InvalidScaraplateTemplateError and the target project is as it was; a   *)
(* target without a context file is rolled up with an empty context.       *)
(***************************************************************************)
\* rollup() has been called and the project has not been touched by hand since
Called == runs > 0 /\ pc # "ready"

InvalidTemplate == read_target(generated, ScaraplateConfPath) \in {None, EmptyConf}

InvalidTemplateRaised ==
    /\ (Called /\ InvalidTemplate)
           => /\ pc = "raised"
              /\ raised = "InvalidScaraplateTemplateError"
              /\ written = {}
              /\ project = before
    /\ (Called /\ ~InvalidTemplate /\ before[ScaraplateConfPath].contents = None)
           => raised \notin {"FileNotFoundError", "InvalidScaraplateTemplateError"}
    /\ (Called /\ ~InvalidTemplate /\ before[ScaraplateConfPath].contents = None
               /\ step = NoStep)
           => (pc = "applying" \/ raised = "ValueError")

EmptyContextRaised ==
    /\ pc = "raised"
    /\ raised = "InvalidScaraplateTemplateError"
    /\ read_target(generated, ScaraplateConfPath) = EmptyConf
    /\ project[ManifestPath].contents # None
    /\ project[ScaraplateConfPath].contents = None

(***************************************************************************)
(* C18  When apply_generated_project has completed, every file of the      *)
(* rendered template has, in the target, the bytes its strategy's apply()  *)
(* returned and the permission bits of the template file, also when the    *)
(* strategy kept the content of the target.                                *)
(***************************************************************************)
AppliedProjectWritten ==
    pc = "done" => \A p \in DOMAIN generated : HoldsOutput(before, p)

KeptContentNewMode ==
    /\ pc = "done"
    /\ strategy_node_of(ManifestPath).strategy = "IfMissing"
    /\ before[ManifestPath].contents # None
    /\ project[ManifestPath].contents = before[ManifestPath].contents
    /\ before[ManifestPath].mode = 420
    /\ project[ManifestPath].mode = 493

(***************************************************************************)
(* C19  When a rollup has aborted after some files were written and is run *)
(* again with the same template once the cause is fixed, the target tree   *)
(* is the one a rollup that was not interrupted would have produced from   *)
(* the original target.                                                    *)
(***************************************************************************)
RerunConverges ==
    (pc = "done" /\ runs = 2 /\ repaired # {})
        => \A p \in DOMAIN generated : HoldsOutput(Repaired(original), p)

(***************************************************************************)
(* C20  In every run of automatic_rollup, commit_changes is called once,   *)
(* after rollup() has completed, if and only if the project differs from   *)
(* its commit after the rollup; it is not called for a clean project nor   *)
(* when rollup() raised.                                                   *)
(***************************************************************************)
CommitsOnlyWhenDirty ==
    /\ auto_pc = "rolling" => commit_calls = 0
    /\ auto_pc = "finished"
           => commit_calls = IF pc = "done" /\ project # head THEN 1 ELSE 0

SyncedProjectNotCommitted ==
    /\ auto_pc = "finished"
    /\ runs = 2
    /\ pc = "done"
    /\ branch = head
    /\ head # original
    /\ commit_calls = 0

(***************************************************************************)
(* C25                                                                     *)
(***************************************************************************)
\* TemplateHash was applied with a clean template to a target that carries the
\* "From <commit_url>" line of some commit of the template
AppliedToMarkedTarget ==
    /\ strategy = "TemplateHash"
    /\ Applied
    /\ ~last.meta.is_git_dirty
    /\ RecordedCommits(last.target) # {}

\* C25, as stated: the searched comment block omits the commit line, so that a
\* target with the marker of any earlier commit is matched and returned unchanged.
MarkerOfAnyCommitKeepsTarget == AppliedToMarkedTarget => last.out = last.target

\* C25, amended: the searched comment block is the appended one, commit line
\* included; a target with the marker of the HEAD commit is returned unchanged,
\* a target that only carries the marker of earlier commits is overwritten with
\* the template and the comment block of the HEAD commit.
MarkerOfHeadKeepsTarget ==
    AppliedToMarkedTarget =>
        IF commit_number(last.meta) \in RecordedCommits(last.target)
        THEN last.out = last.target
        ELSE /\ last.out = Rewritten(config, last.meta, last.target, last.template)
             /\ last.out # last.target
             /\ RecordedCommits(last.out) = {commit_number(last.meta)}

\* a target with the marker of the first commit was overwritten at the second
EarlierMarkerOverwritten ==
    /\ AppliedToMarkedTarget
    /\ RecordedCommits(last.target) = {1}
    /\ commit_number(last.meta) = 2
    /\ RecordedCommits(last.out) = {2}
    /\ target_contents = last.out

(***************************************************************************)
(* C26: comment lines around max_line_length                               *)
(***************************************************************************)
\* the length of "# Generated by https://github.com/rambler-digital-solutions/scaraplate"
GeneratedByLength == Len(comment_line([line_comment_start |-> b("#")], GeneratedBy))

\* TemplateHash.Schema: no max_line_length, and one that is one more than, equal to
\* and one less than the length of the "Generated by" line
LinterConfigs ==
    {[line_comment_start |-> b("#"), max_line_length |-> max_line_length,
      max_line_linter_ignore_mark |-> b("  # noqa")] :
        max_line_length \in {<<>>, <<GeneratedByLength + 1>>, <<GeneratedByLength>>,
                             <<GeneratedByLength - 1>>}}

InitLinterIgnore ==
    /\ strategy \in HashStrategies
    /\ config \in LinterConfigs
    /\ template_contents \in Templates(strategy)
    /\ template_mode = 33188
    /\ template_meta = TemplateMeta(Commit(1), FALSE)
    /\ target_contents \in {None, b("x\n")}
    /\ target_mode = IF target_contents = None THEN 0 ELSE 420
    /\ last = NoInvocation
    /\ previous = NoInvocation
    /\ rollups = 0
    /\ edits = 0
    /\ NoDispatch
    /\ NoProject
    /\ NoVcs
    /\ NoGit
    /\ NoNewline

SpecLinterIgnore == InitLinterIgnore /\ [][Next]_vars

\* the comment lines of the last invocation, before they are rendered
LastCommentContents ==
    IF strategy = "TemplateHash" THEN TemplateHash_comment_contents(config, last.meta)
    ELSE RenderedTemplateFileHash_comment_contents(config, last.meta, last.template)

\* a comment line, with the mark when max_line_length is set and the line is
\* longer than max_line_length
MarkedWhenLonger(cfg, line) ==
    IF cfg.max_line_length # <<>> /\ Len(line) > cfg.max_line_length[1]
    THEN line \o cfg.max_line_linter_ignore_mark
    ELSE line

\* the last n lines of a file
LastLines(contents, n) ==
    SubSeq(bytes_splitlines(contents), Len(bytes_splitlines(contents)) - n + 1,
           Len(bytes_splitlines(contents)))

\* the last invocation wrote a new comment block
WroteCommentBlock ==
    /\ strategy \in HashStrategies
    /\ Applied
    /\ last.out # last.target

\* C26: every generated comment line has the max_line_linter_ignore_mark suffix
\* exactly when max_line_length is set and the line is longer than max_line_length
\* characters; a line of exactly max_line_length characters has no suffix, and
\* without max_line_length no line has it.
MarkOnlyOnLongerLines ==
    WroteCommentBlock =>
        LastLines(last.out, Len(LastCommentContents))
            = [i \in 1..Len(LastCommentContents) |->
                  MarkedWhenLonger(config, LastCommentContents[i])]

(***************************************************************************)
(* C27: requirement lists in preserved sections                            *)
(***************************************************************************)
\* merge_requirements for the two keys of the section options, which is also
\* preserved: as a section, as a section without install_requires, or for the key
\* install_requires only
PreserveRequirementsConfigs ==
    {[preserve_sections |-> preserve_sections,
      preserve_keys |-> preserve_keys,
      merge_requirements |->
          <<[sections |-> Pattern({b("options")}, TRUE),
             keys |-> Pattern({b("install_requires"), b("tests_require")}, TRUE)]>>] :
        <<preserve_sections, preserve_keys>> \in
            {<<<<[sections |-> Pattern({b("options")}, TRUE), excluded_keys |-> <<>>]>>,
               <<>>>>,
             <<<<[sections |-> Pattern({b("options")}, TRUE),
                  excluded_keys |-> <<Pattern({b("install_requires")}, TRUE)>>]>>,
               <<>>>>,
             <<<<>>,
               <<[sections |-> Pattern({b("options")}, TRUE),
                  keys |-> Pattern({b("install_requires")}, TRUE)]>>>>}}

InitPreserveRequirements ==
    /\ strategy = "SetupCfgMerge"
    /\ config \in PreserveRequirementsConfigs
    /\ template_contents \in
           {setup_cfg(install_requires, tests_require, <<LF>>) :
               install_requires \in SeqsUpTo(TemplateRequirements, MaxRequirements),
               tests_require \in {<<>>, <<b("pytest")>>}}
    /\ template_mode = 33188
    /\ template_meta = TemplateMeta(Commit(1), FALSE)
    /\ target_contents \in {None} \cup
           {setup_cfg(install_requires, tests_require, <<LF>>) :
               install_requires \in SeqsUpTo(TargetRequirements, MaxRequirements),
               tests_require \in {<<>>, <<b("pytest>=5"), b("mock")>>}}
    /\ target_mode = IF target_contents = None THEN 0 ELSE 420
    /\ last = NoInvocation
    /\ previous = NoInvocation
    /\ rollups = 0
    /\ edits = 0
    /\ NoDispatch
    /\ NoProject
    /\ NoVcs
    /\ NoGit
    /\ NoNewline

SpecPreserveRequirements == InitPreserveRequirements /\ [][Rollup]_vars

\* SetupCfgMerge was applied with a config that also preserves the section options
AppliedToPreservedRequirements ==
    /\ strategy = "SetupCfgMerge"
    /\ config \in PreserveRequirementsConfigs
    /\ Applied

\* C27: the requirement merge runs before the preserve rules and they see its
\* result: for every key that merge_requirements selects in a section that
\* preserve_sections or preserve_keys also matches, the value of the output is the
\* merged requirement list (the entries of the target and the entries of the
\* template for other packages, sorted), not the value the target had.
PreservedRequirementsAreMerged ==
    AppliedToPreservedRequirements =>
        \A key \in RequirementKeys :
            /\ SameEntries(EntriesOf(last.out, key),
                           EntriesOf(last.target, key)
                           \o TemplateOnly(EntriesOf(last.template, key),
                                           EntriesOf(last.target, key)))
            /\ SortedEntries(EntriesOf(last.out, key))

\* the section options is preserved as a whole from a target whose install_requires
\* lacks a package of the template, and the output lists that package
PreservedSectionGotTemplateRequirement ==
    /\ AppliedToPreservedRequirements
    /\ config.preserve_sections # <<>>
    /\ config.preserve_sections[1].excluded_keys = <<>>
    /\ EntriesOf(last.target, b("install_requires")) = <<b("bar==1.0")>>
    /\ EntriesOf(last.template, b("install_requires")) = <<b("foo==1.0")>>
    /\ EntriesOf(last.out, b("install_requires")) = <<b("bar==1.0"), b("foo==1.0")>>
    /\ target_contents = last.out

(***************************************************************************)
(* C28, C29: detect_newline over one or two open files                     *)
(***************************************************************************)
\* what the files hold: the files of the tests of detect_newline, and files in
\* which a "\r" ends a line that is not the last of its run
NewlineContents ==
    {None, b(""), b("a"), b("a\na\n"), b("a\r\na\r\n"), b("a\ra\r"), b("a\r\na\na"),
     b("\n\n\n"), b("\r\n"), b("a\rb"), b("a\rb\n"), b("a\r\r\n")}

InitDetectNewline ==
    /\ buffers \in {<<BytesIO(contents)>> : contents \in NewlineContents}
                   \cup {<<BytesIO(target), BytesIO(template)>> :
                            target \in NewlineContents, template \in NewlineContents}
    /\ default_newline \in {<<LF>>, <<CR, LF>>}
    /\ inspected = 0
    /\ first_line = <<>>
    /\ detected = <<>>
    /\ newline_pc = "loop"
    /\ strategy = "none"
    /\ config = <<>>
    /\ template_contents = <<>>
    /\ template_mode = 0
    /\ template_meta = TemplateMeta(Commit(1), FALSE)
    /\ target_contents = None
    /\ target_mode = 0
    /\ last = NoInvocation
    /\ previous = NoInvocation
    /\ rollups = 0
    /\ edits = 0
    /\ NoDispatch
    /\ NoProject
    /\ NoVcs
    /\ NoGit

NextDetectNewline == ReadFirstLine \/ SeekStart \/ CompareLine \/ ReturnDefault

SpecDetectNewline == InitDetectNewline /\ [][NextDetectNewline]_vars

\* the line ending of the first line of a file, where "\n", "\r\n" and "\r" end a
\* line (<<>>: the file has no line ending)
FirstLineEnding(contents) ==
    IF first_in(contents, 1, {CR, LF}) = 0 THEN <<>>
    ELSE IF contents[first_in(contents, 1, {CR, LF})] = LF THEN <<LF>>
    ELSE IF /\ first_in(contents, 1, {CR, LF}) < Len(contents)
            /\ contents[first_in(contents, 1, {CR, LF}) + 1] = LF
    THEN <<CR, LF>>
    ELSE <<CR>>

\* the line ending of the first of the files whose first line has one, else default
RECURSIVE FirstEndingOf(_, _)
FirstEndingOf(files, default) ==
    IF files = <<>> THEN default
    ELSE IF Head(files) # <<>> /\ FirstLineEnding(Head(files)[1].contents) # <<>>
    THEN FirstLineEnding(Head(files)[1].contents)
    ELSE FirstEndingOf(Tail(files), default)

\* C28: detect_newline returns the line ending ("\n", "\r\n" or "\r") of the first
\* line of the first file, in argument order, whose first line has one, and the
\* default only when none of the files holds a line ending.
FirstLineEndingDetected ==
    newline_pc = "done" => detected = FirstEndingOf(buffers, default_newline)

\* C29: whatever detect_newline returns, the newline of the first file, that of a
\* later file or the default, every file it was given is at read offset zero
\* afterwards.
BuffersLeftAtStart ==
    newline_pc = "done" =>
        \A i \in 1..Len(buffers) : buffers[i] # <<>> => tell(buffers[i][1]) = 0

\* detect_newline read the whole first file without finding a line ending, took
\* the newline of the second file, and both are at offset zero
SecondFileDetectedBothRewound ==
    /\ newline_pc = "done"
    /\ Len(buffers) = 2
    /\ inspected = 1
    /\ buffers[1] = <<[contents |-> b("a"), offset |-> 0]>>
    /\ buffers[2] = <<[contents |-> b("a\r\na\na"), offset |-> 0]>>
    /\ detected = <<CR, LF>>

(***************************************************************************)
(* C30: package names in a merged requirement list                         *)
(***************************************************************************)
\* C30: in every requirement list SetupCfgMerge produces, each package name,
\* compared case-insensitively and without version and extras, appears at most
\* once, also when the list of the template or of the target repeats a name.
RequirementNamesUnique ==
    (strategy = "SetupCfgMerge" /\ config \in MergeRequirementsConfigs /\ Applied) =>
        \A key \in RequirementKeys :
            \A i, j \in 1..Len(EntriesOf(last.out, key)) :
                PackageName(EntriesOf(last.out, key)[i])
                    = PackageName(EntriesOf(last.out, key)[j]) => i = j

(***************************************************************************)
(* automation: a project repository in GitLab, cloned and pushed with git  *)
(*                                                                         *)
(* A tree gives the version of the content of each file; a commit is its   *)
(* parent (0: a root commit) and its tree, and is named by its index in    *)
(* commits.  A ref the remote does not have is at commit 0.             *)
(***************************************************************************)
MaxVersion == 1
MaxCommits == 5
MaxMergeRequests == 2

Files == {"a", "b"}

Trees == [Files -> 0..MaxVersion]

Tree(version_a, version_b) == [f \in Files |-> IF f = "a" THEN version_a ELSE version_b]

Branches == {"master", "release", "update"}

\* gitlab_project.default_branch
default_branch == "master"

\* git diff <commit>^1..<commit>: the files the commit changes, with the version
\* before and after
one_commit_diff(parent_tree, tree) ==
    {<<f, parent_tree[f], tree[f]>> : f \in {g \in Files : parent_tree[g] # tree[g]}}

\* Git.are_one_commit_diffs_equal of the local commit and the commit of a remote ref
are_one_commit_diffs_equal(cs, commit, ref_commit) ==
    one_commit_diff(cs[commit.parent].tree, commit.tree)
        = one_commit_diff(cs[cs[ref_commit].parent].tree, cs[ref_commit].tree)

\* Git.is_existing_ref of a remote ref of the clone
is_existing_ref(refs, ref) == refs[ref] # 0

\* Git.is_same_commit
is_same_commit(commit1, commit2) == commit1 = commit2

\* c is ancestor, or ancestor is reachable from c by parents
RECURSIVE is_ancestor(_, _, _)
is_ancestor(cs, ancestor, c) ==
    IF c = 0 THEN FALSE
    ELSE IF c = ancestor THEN TRUE
    ELSE is_ancestor(cs, ancestor, cs[c].parent)

\* a faulty commit_changes: a diverged remote ref is pushed to as it is
commit_changes_commands_without_delete(cs, refs, ref, commit) ==
    IF ~is_existing_ref(refs, ref) THEN <<"push">>
    ELSE IF is_same_commit(refs[ref], commit.parent) THEN <<"push">>
    ELSE IF ~are_one_commit_diffs_equal(cs, commit, refs[ref])
    THEN <<"push">>
    ELSE <<>>

\* GitCloneProjectVCS.commit_changes once the commit is made: the pushes it runs
commit_changes_commands(cs, refs, ref, commit) ==
    IF ~is_existing_ref(refs, ref) THEN <<"push">>
    ELSE IF is_same_commit(refs[ref], commit.parent) THEN <<"push">>
    ELSE IF ~are_one_commit_diffs_equal(cs, commit, refs[ref])
    THEN <<"push --delete", "push">>
    ELSE <<>>

\* the remote: its commits, its branches, the merge requests of the project, and
\* whether it rejected a command
Remote(cs, branches, mrs, rejected) ==
    [commits |-> cs, branches |-> branches, merge_requests |-> mrs, rejected |-> rejected]

\* GitLab closes the opened merge requests of a source ref that is deleted
close_merge_requests(mrs, ref) ==
    [i \in 1..Len(mrs) |->
        IF mrs[i].source_branch = ref /\ mrs[i].state = "opened"
        THEN [mrs[i] EXCEPT !.state = "closed"]
        ELSE mrs[i]]

\* git push --delete origin <ref>
push_branch_delete(remote, ref) ==
    IF remote.branches[ref] = 0 THEN [remote EXCEPT !.rejected = TRUE]
    ELSE [remote EXCEPT !.branches[ref] = 0,
                        !.merge_requests = close_merge_requests(@, ref)]

\* git push origin HEAD:<ref>, without force: the remote takes the commit when
\* it has no such ref or the ref is an ancestor of the commit
push(remote, ref, commit) ==
    IF /\ remote.branches[ref] # 0
       /\ ~is_ancestor(remote.commits, remote.branches[ref], commit.parent)
    THEN [remote EXCEPT !.rejected = TRUE]
    ELSE [remote EXCEPT !.commits = Append(@, commit),
                        !.branches[ref] = Len(remote.commits) + 1]

\* the remote after the commands of commit_changes, which end with the first
\* one that fails
RECURSIVE run_git(_, _, _, _)
run_git(remote, commands, ref, commit) ==
    IF commands = <<>> \/ remote.rejected THEN remote
    ELSE run_git(IF Head(commands) = "push" THEN push(remote, ref, commit)
                 ELSE push_branch_delete(remote, ref),
                 Tail(commands), ref, commit)

\* GitLabMRProjectVCS.get_merge_request: the opened merge requests of the branches
get_merge_request(mrs, source_branch, target_branch) ==
    {i \in 1..Len(mrs) : /\ mrs[i].state = "opened"
                         /\ mrs[i].source_branch = source_branch
                         /\ mrs[i].target_branch = target_branch}

MergeRequest(source_branch, target_branch) ==
    [source_branch |-> source_branch, target_branch |-> target_branch, state |-> "opened"]

\* a faulty create_merge_request: it does not look for an existing merge request
create_merge_request_always(mrs, source_branch, target_branch) ==
    Append(mrs, MergeRequest(source_branch, target_branch))

\* GitLabMRProjectVCS.create_merge_request
create_merge_request(mrs, source_branch, target_branch) ==
    IF get_merge_request(mrs, source_branch, target_branch) # {} THEN mrs
    ELSE Append(mrs, MergeRequest(source_branch, target_branch))

\* the branch git clone checks out
cloned_branch == IF clone_ref = <<>> THEN default_branch ELSE clone_ref[1]

\* GitCloneProjectVCS.clone: git clone [--branch clone_ref]
GitClone ==
    /\ git_pc \in {"idle", "finished", "raised"}
    /\ IF remote_branches[cloned_branch] = 0
       THEN /\ git_pc' = "raised"
            /\ local_commit' = <<>>
            /\ git_commands' = <<>>
            /\ UNCHANGED <<origin, cloned_head, worktree>>
       ELSE /\ git_pc' = "cloned"
            /\ origin' = remote_branches
            /\ cloned_head' = remote_branches[cloned_branch]
            /\ worktree' = commits[remote_branches[cloned_branch]].tree
            /\ local_commit' = <<>>
            /\ git_commands' = <<>>
    /\ UNCHANGED <<commits, remote_branches, merge_requests, clone_ref, changes_branch,
                   template_repo, template_clone_ref, template_vcs,
                   file_vars, dispatch_vars, project_vars, vcs_vars, newline_vars>>

\* rollup() writes the files of the project
RollupProject ==
    /\ git_pc = "cloned"
    /\ worktree' \in Trees
    /\ git_pc' = "rolled"
    /\ UNCHANGED <<commits, remote_branches, merge_requests, clone_ref, changes_branch, origin,
                   cloned_head, local_commit, git_commands,
                   template_repo, template_clone_ref, template_vcs,
                   file_vars, dispatch_vars, project_vars, vcs_vars, newline_vars>>

\* Git.is_dirty: git status --porcelain prints something
git_is_dirty == worktree # commits[cloned_head].tree

\* automatic_rollup returns: the rollup changed nothing
ReturnClean ==
    /\ git_pc = "rolled"
    /\ ~git_is_dirty
    /\ git_pc' = "finished"
    /\ UNCHANGED <<commits, remote_branches, merge_requests, clone_ref, changes_branch, origin,
                   cloned_head, worktree, local_commit, git_commands,
                   template_repo, template_clone_ref, template_vcs,
                   file_vars, dispatch_vars, project_vars, vcs_vars, newline_vars>>

\* the remote as commit_changes finds it
TheRemote == Remote(commits, remote_branches, merge_requests, FALSE)

\* the commit of git commit on the new local branch
NewCommit == [parent |-> cloned_head, tree |-> worktree]

\* GitCloneProjectVCS.commit_changes: a local branch, a commit, and the pushes
GitCommitChanges ==
    /\ git_pc = "rolled"
    /\ git_is_dirty
    /\ Len(commits) < MaxCommits
    /\ local_commit' = <<NewCommit>>
    /\ git_commands' = commit_changes_commands(commits, origin, changes_branch, NewCommit)
    /\ commits' = run_git(TheRemote, git_commands', changes_branch, NewCommit).commits
    /\ remote_branches' = run_git(TheRemote, git_commands', changes_branch, NewCommit).branches
    /\ merge_requests' =
           run_git(TheRemote, git_commands', changes_branch, NewCommit).merge_requests
    /\ git_pc' = IF run_git(TheRemote, git_commands', changes_branch, NewCommit).rejected
                 THEN "raised" ELSE "pushed"
    /\ UNCHANGED <<clone_ref, changes_branch, origin, cloned_head, worktree,
                   template_repo, template_clone_ref, template_vcs,
                   file_vars, dispatch_vars, project_vars, vcs_vars, newline_vars>>

\* GitLabMRProjectVCS.commit_changes after self._git_clone.commit_changes: the merge
\* request, unless changes_branch is the default branch
GitLabMergeRequest ==
    /\ git_pc = "pushed"
    /\ Len(merge_requests) < MaxMergeRequests
    /\ merge_requests' =
           IF changes_branch = default_branch THEN merge_requests
           ELSE create_merge_request(merge_requests, changes_branch, default_branch)
    /\ git_pc' = "finished"
    /\ UNCHANGED <<commits, remote_branches, clone_ref, changes_branch, origin, cloned_head,
                   worktree, local_commit, git_commands,
                   template_repo, template_clone_ref, template_vcs,
                   file_vars, dispatch_vars, project_vars, vcs_vars, newline_vars>>

\* the tree of a branch once the one-commit diff of a commit is applied to it
merged_tree(tree, parent_tree, source_tree) ==
    [f \in Files |-> IF parent_tree[f] # source_tree[f] THEN source_tree[f] ELSE tree[f]]

\* an opened merge request is accepted by hand between two rollups: the target
\* branch gets the changes and GitLab removes the source branch
\* (should_remove_source_branch)
MergeRequestAccepted ==
    /\ git_pc \in {"idle", "finished", "raised"}
    /\ Len(commits) < MaxCommits
    /\ \E i \in 1..Len(merge_requests) :
           /\ merge_requests[i].state = "opened"
           /\ remote_branches[merge_requests[i].source_branch] # 0
           /\ remote_branches[merge_requests[i].target_branch] # 0
           /\ commits' = Append(commits,
                  [parent |-> remote_branches[merge_requests[i].target_branch],
                   tree |-> merged_tree(
                       commits[remote_branches[merge_requests[i].target_branch]].tree,
                       commits[commits[remote_branches[merge_requests[i].source_branch]].parent].tree,
                       commits[remote_branches[merge_requests[i].source_branch]].tree)])
           /\ remote_branches' =
                  [remote_branches EXCEPT ![merge_requests[i].target_branch] = Len(commits) + 1,
                                          ![merge_requests[i].source_branch] = 0]
           /\ merge_requests' = [merge_requests EXCEPT ![i].state = "merged"]
    /\ UNCHANGED <<clone_ref, changes_branch, origin, cloned_head, worktree, local_commit,
                   git_commands, git_pc, template_repo, template_clone_ref, template_vcs,
                   file_vars, dispatch_vars, project_vars, vcs_vars, newline_vars>>

\* an opened merge request is closed by hand between two rollups; its branch stays
MergeRequestClosed ==
    /\ git_pc \in {"idle", "finished", "raised"}
    /\ \E i \in 1..Len(merge_requests) :
           /\ merge_requests[i].state = "opened"
           /\ merge_requests' = [merge_requests EXCEPT ![i].state = "closed"]
    /\ UNCHANGED <<commits, remote_branches, clone_ref, changes_branch, origin, cloned_head,
                   worktree, local_commit, git_commands, git_pc,
                   template_repo, template_clone_ref, template_vcs,
                   file_vars, dispatch_vars, project_vars, vcs_vars, newline_vars>>

\* somebody commits to the default branch between two rollups
DefaultBranchCommit ==
    /\ git_pc \in {"idle", "finished", "raised"}
    /\ Len(commits) < MaxCommits
    /\ \E tree \in Trees \ {commits[remote_branches[default_branch]].tree} :
           commits' = Append(commits, [parent |-> remote_branches[default_branch],
                                       tree |-> tree])
    /\ remote_branches' = [remote_branches EXCEPT ![default_branch] = Len(commits) + 1]
    /\ UNCHANGED <<merge_requests, clone_ref, changes_branch, origin, cloned_head, worktree,
                   local_commit, git_commands, git_pc,
                   template_repo, template_clone_ref, template_vcs,
                   file_vars, dispatch_vars, project_vars, vcs_vars, newline_vars>>

\* no template repository is cloned
NoTemplateClone ==
    /\ template_repo = <<>>
    /\ template_clone_ref = <<>>
    /\ template_vcs = [error |-> "none"]

\* changes_branch and clone_ref
GitRefs ==
    {<<"update", <<>>>>, <<"update", <<"release">>>>, <<"update", <<"master">>>>,
     <<"master", <<>>>>, <<"master", <<"master">>>>, <<"release", <<"release">>>>}

\* the project has the default branch and a branch release, which is at the same
\* commit or one commit ahead; clone_ref and changes_branch are those of the tests
\* of automatic_rollup and, besides, the branch release for both
InitGit ==
    /\ commits \in {<<[parent |-> 0, tree |-> Tree(1, 1)], [parent |-> 1, tree |-> Tree(0, 0)]>>,
                    <<[parent |-> 0, tree |-> Tree(1, 1)], [parent |-> 1, tree |-> Tree(0, 0)],
                      [parent |-> 2, tree |-> Tree(0, 1)]>>}
    /\ remote_branches = [r \in Branches |-> IF r = "master" THEN 2
                                             ELSE IF r = "release" THEN Len(commits)
                                             ELSE 0]
    /\ merge_requests = <<>>
    /\ \E refs \in GitRefs : changes_branch = refs[1] /\ clone_ref = refs[2]
    /\ origin = remote_branches
    /\ cloned_head = 0
    /\ worktree = Tree(0, 0)
    /\ local_commit = <<>>
    /\ git_commands = <<>>
    /\ git_pc = "idle"
    /\ NoTemplateClone
    /\ NoFile
    /\ NoDispatch
    /\ NoProject
    /\ NoVcs
    /\ NoNewline

NextGit ==
    \/ GitClone
    \/ RollupProject
    \/ ReturnClean
    \/ GitCommitChanges
    \/ GitLabMergeRequest
    \/ MergeRequestAccepted
    \/ MergeRequestClosed
    \/ DefaultBranchCommit

SpecGit == InitGit /\ [][NextGit]_vars


(***************************************************************************)
(* GitCloneTemplateVCS.clone of a template repository with branches and    *)
(* tags                                                                    *)
(***************************************************************************)
TemplateBranches == {"master", "dev"}

TemplateTags == {"v1", "v2"}

\* git clone [--branch ref]: the HEAD of the clone.  Without a ref the default
\* branch is checked out, with the name of a branch that branch, with the name of
\* a tag its commit, with a detached HEAD; any other ref fails.
Git_clone(repo, ref) ==
    IF ref = <<>>
    THEN [error |-> "no", head_ref |-> <<"master">>, commit |-> repo.branches["master"]]
    ELSE IF ref[1] \in TemplateBranches
    THEN [error |-> "no", head_ref |-> ref, commit |-> repo.branches[ref[1]]]
    ELSE IF ref[1] \in TemplateTags
    THEN [error |-> "no", head_ref |-> <<>>, commit |-> repo.tags[ref[1]]]
    ELSE [error |-> "RuntimeError", head_ref |-> <<>>, commit |-> 0]

\* _git_resolve_head: git rev-parse --abbrev-ref HEAD, None (<<>>) when it prints
\* HEAD, which it does for a detached HEAD
_git_resolve_head(git) == git.head_ref

\* GitCloneTemplateVCS.clone up to the yield, from the clone on
template_vcs_of(git, ref) ==
    IF git.error # "no" THEN [error |-> git.error, head_ref |-> <<>>, commit_hash |-> 0]
    ELSE IF ref # <<>> /\ ref # _git_resolve_head(git)
    THEN [error |-> "AssertionError", head_ref |-> <<>>, commit_hash |-> 0]
    ELSE [error |-> "no", head_ref |-> _git_resolve_head(git), commit_hash |-> git.commit]

\* GitCloneTemplateVCS.clone: the context manager is entered
GitCloneTemplateVCS_clone ==
    /\ template_vcs.error = "none"
    /\ template_vcs' = template_vcs_of(Git_clone(template_repo, template_clone_ref),
                                       template_clone_ref)
    /\ UNCHANGED <<commits, remote_branches, merge_requests, clone_ref, changes_branch, origin,
                   cloned_head, worktree, local_commit, git_commands, git_pc,
                   template_repo, template_clone_ref,
                   file_vars, dispatch_vars, project_vars, vcs_vars, newline_vars>>

InitTemplateClone ==
    /\ template_repo \in [branches : [TemplateBranches -> 1..NumCommits],
                          tags : [TemplateTags -> 1..NumCommits]]
    /\ template_clone_ref \in {<<>>} \cup {<<ref>> : ref \in TemplateBranches \cup TemplateTags
                                                            \cup {"missing"}}
    /\ template_vcs = [error |-> "none"]
    /\ commits = <<>>
    /\ remote_branches = <<>>
    /\ merge_requests = <<>>
    /\ clone_ref = <<>>
    /\ changes_branch = ""
    /\ origin = <<>>
    /\ cloned_head = 0
    /\ worktree = <<>>
    /\ local_commit = <<>>
    /\ git_commands = <<>>
    /\ git_pc = "idle"
    /\ NoFile
    /\ NoDispatch
    /\ NoProject
    /\ NoVcs
    /\ NoNewline

SpecTemplateClone == InitTemplateClone /\ [][GitCloneTemplateVCS_clone]_vars

(***************************************************************************)
(* C21                                                                     *)
(***************************************************************************)
\* commit_changes has made its commit and run its pushes
CommittedChanges == git_pc \in {"pushed", "raised"} /\ local_commit # <<>>

\* the remote branch changes_branch now is at the commit commit_changes made
PushedLocalCommit ==
    /\ remote_branches[changes_branch] = Len(commits)
    /\ commits[Len(commits)] = local_commit[1]

\* the one-commit diffs of the clone's remote ref changes_branch and of the commit
\* commit_changes made are equal
SameDiffAsRemoteBranch ==
    one_commit_diff(commits[local_commit[1].parent].tree, local_commit[1].tree)
        = one_commit_diff(commits[commits[origin[changes_branch]].parent].tree,
                          commits[origin[changes_branch]].tree)

\* C21: commit_changes never force-pushes changes_branch.  When the remote branch
\* does not exist or is the parent of the new commit, the commit is pushed with a
\* plain push; when it exists, is not the parent and its one-commit diff differs
\* from that of the new commit, the branch is deleted and then the commit is
\* pushed; when the diffs are equal nothing is pushed or deleted and the branch
\* keeps its commit.  No push is rejected by the remote.
NeverForcePushed ==
    CommittedChanges =>
        /\ git_pc = "pushed"
        /\ IF origin[changes_branch] = 0 \/ origin[changes_branch] = local_commit[1].parent
           THEN git_commands = <<"push">> /\ PushedLocalCommit
           ELSE IF ~SameDiffAsRemoteBranch
           THEN git_commands = <<"push --delete", "push">> /\ PushedLocalCommit
           ELSE /\ git_commands = <<>>
                /\ remote_branches[changes_branch] = origin[changes_branch]

\* the remote branch update of an earlier rollup was deleted and replaced by a
\* commit with another diff, which does not descend from it
DivergedBranchReplaced ==
    /\ git_pc = "pushed"
    /\ changes_branch = "update"
    /\ origin["update"] # 0
    /\ git_commands = <<"push --delete", "push">>
    /\ PushedLocalCommit
    /\ ~is_ancestor(commits, origin["update"], remote_branches["update"])

(***************************************************************************)
(* C22                                                                     *)
(***************************************************************************)
\* C22: when changes_branch is the same as clone_ref, commit_changes of
\* GitLabMRProjectVCS opens no merge request.
NoMergeRequestForCloneRef ==
    clone_ref = <<changes_branch>> => merge_requests = <<>>

(***************************************************************************)
(* C23                                                                     *)
(***************************************************************************)
\* the opened merge requests from changes_branch to the default branch
OpenedMergeRequests == get_merge_request(merge_requests, changes_branch, default_branch)

AtMostOneOpened == Cardinality(OpenedMergeRequests) <= 1

\* a merge request is created only by commit_changes after its git step and only
\* when none is opened; when commit_changes returns after a rollup with changes,
\* exactly one is opened
MergeRequestStep ==
    /\ Len(merge_requests') > Len(merge_requests) =>
           git_pc = "pushed" /\ OpenedMergeRequests = {}
    /\ (git_pc = "pushed" /\ git_pc' = "finished") =>
           Cardinality(get_merge_request(merge_requests', changes_branch, default_branch)) = 1

\* C23: with a changes_branch other than the default branch, at most one opened
\* merge request from changes_branch to the default branch exists at any time
\* over a sequence of automatic rollups; commit_changes creates one only after
\* the git push step and only when none is opened, and after a rollup that
\* produced changes exactly one exists.
OneOpenedMergeRequest ==
    /\ [](changes_branch # default_branch => AtMostOneOpened)
    /\ [][changes_branch # default_branch => MergeRequestStep]_vars

\* a later rollup replaced the branch, which closed the first merge request, and
\* opened a second one
SecondMergeRequestOpened ==
    /\ git_pc = "finished"
    /\ changes_branch = "update"
    /\ git_commands = <<"push --delete", "push">>
    /\ Len(merge_requests) = 2
    /\ merge_requests[1].state = "closed"
    /\ merge_requests[2] = MergeRequest("update", "master")

(***************************************************************************)
(* C24                                                                     *)
(***************************************************************************)
\* C24: for every branch name and every tag name of the template repository given
\* as clone_ref, GitCloneTemplateVCS.clone yields a TemplateVCS whose
\* template_meta describes the checked-out commit; no assertion fails.
AnyBranchOrTagCloned ==
    (/\ template_vcs.error # "none"
     /\ template_clone_ref # <<>>
     /\ template_clone_ref[1] \in TemplateBranches \cup TemplateTags)
    => /\ template_vcs.error = "no"
       /\ template_vcs.commit_hash =
              IF template_clone_ref[1] \in TemplateBranches
              THEN template_repo.branches[template_clone_ref[1]]
              ELSE template_repo.tags[template_clone_ref[1]]

====
